---- MODULE Spec2Model ----
(***************************************************************************)
(* A model of the CK3 Character App: the DNA duplicator                    *)
(* (src/src/core/dna_duplicator.py), the gallery manager                   *)
(* (src/src/core/gallery_manager.py), the configuration manager            *)
(* (src/src/utils/config.py), the translations (src/src/utils/i18n.py),    *)
(* the database manager (src/src/core/database_manager.py) and the         *)
(* automatic backups (src/src/utils/auto_backup.py).  Texts are sequences  *)
(* of one-character strings; offsets are Python's (0-based, slices are     *)
(* half-open).                                                             *)
(***************************************************************************)
EXTENDS Integers, Sequences, FiniteSets, TLC

VARIABLES
    doc,            \* the parts the caller's document was assembled from
    reapplied,      \* input_text is a document duplicate_dna returned
    input_text,     \* the argument of duplicate_dna / validate_dna
    pc,             \* position of the caller and inside duplicate_dna
    genes_section,  \* locals of duplicate_dna
    start_pos,
    end_pos,
    genes_content,
    raised,         \* the message of the exception duplicate_dna caught, or NoException
    output_text,    \* the value duplicate_dna returned
    is_valid,       \* the pair validate_dna returned
    error_message,
    locator_calls,  \* calls of _extract_genes_section made by validate_dna
    escaped,        \* an exception left validate_dna
    galleries,      \* GalleryManager.galleries
    data_file,      \* the content of characters.json, or NoFile
    images_dir,     \* the names of the files in GalleryManager.images_dir
    uuids,          \* the number of uuid.uuid4() values drawn so far
    returned,       \* the GalleryManager method called last and its value
    DEFAULT_CONFIG, \* ConfigManager.DEFAULT_CONFIG
    config,         \* ConfigManager.config
    shared,         \* config["recent_databases"] is DEFAULT_CONFIG["recent_databases"]
    config_file,    \* the content of config.json, or NoFile
    result,         \* the ConfigManager method called last and its value
    lang_dir,       \* the files of I18n.lang_dir
    default_lang,   \* I18n.default_lang
    current_lang,   \* I18n.current_lang
    translations,   \* I18n.translations
    available_languages,    \* I18n.available_languages
    translated,     \* the I18n method called last and its outcome
    db_config,      \* DatabaseManager.config
    db_config_file, \* the content of db_config.json, or NoFile
    base_dir,       \* the Database_* folders of DatabaseManager.base_dir
    answered,       \* the DatabaseManager method called last, its arguments,
                    \* its value and the config it found
    interval,       \* AutoBackupManager.interval
    max_backups,    \* AutoBackupManager.max_backups
    is_running,     \* AutoBackupManager.is_running
    backup_thread,  \* AutoBackupManager.backup_thread: an index of loops, or NoThread
    stop_event,     \* AutoBackupManager.stop_event is set
    loops,          \* the threads started on _backup_loop, in the order of their start
    backup_directory,   \* the files of AutoBackupManager.backup_directory
    clock,          \* the time, in the steps of the backup names
    main,           \* the AutoBackupManager method the caller's thread is in
    cleaned         \* the files the cleanup made last removed

dnaVars == <<doc, reapplied, input_text, pc, genes_section, start_pos, end_pos,
             genes_content, raised, output_text, is_valid, error_message,
             locator_calls, escaped>>

galleryVars == <<galleries, data_file, images_dir, uuids, returned>>

configVars == <<DEFAULT_CONFIG, config, shared, config_file, result>>

i18nVars == <<lang_dir, default_lang, current_lang, translations,
              available_languages, translated>>

databaseVars == <<db_config, db_config_file, base_dir, answered>>

backupVars == <<interval, max_backups, is_running, backup_thread, stop_event,
                loops, backup_directory, clock, main, cleaned>>

utilVars == <<i18nVars, databaseVars, backupVars>>

managerVars == <<galleryVars, configVars, utilVars>>

vars == <<dnaVars, managerVars>>

-----------------------------------------------------------------------------
(* Python string primitives *)

Least(S) == CHOOSE x \in S : \A y \in S : x <= y

At(s, pos) == s[pos + 1]

Slice(s, a, b) == SubSeq(s, a + 1, b)

CharIs(s, pos, c) == pos >= 0 /\ pos < Len(s) /\ At(s, pos) = c

StartsWith(s, pos, lit) ==
    pos >= 0 /\ pos + Len(lit) <= Len(s) /\ Slice(s, pos, pos + Len(lit)) = lit

IsSpace(c) == c \in {" ", "\t", "\n"}

IsDigit(c) == c \in {"0", "1", "2", "3", "4", "5", "6", "7", "8", "9"}

RECURSIVE Find(_, _, _)
Find(s, c, pos) ==
    IF pos >= Len(s) THEN -1
    ELSE IF At(s, pos) = c THEN pos
    ELSE Find(s, c, pos + 1)

RECURSIVE RFind(_, _, _)
RFind(s, c, pos) ==
    IF pos < 0 THEN -1
    ELSE IF At(s, pos) = c THEN pos
    ELSE RFind(s, c, pos - 1)

RECURSIVE Strip(_)
Strip(s) ==
    IF s = <<>> THEN s
    ELSE IF IsSpace(Head(s)) THEN Strip(Tail(s))
    ELSE IF IsSpace(s[Len(s)]) THEN Strip(SubSeq(s, 1, Len(s) - 1))
    ELSE s

-----------------------------------------------------------------------------
(* Regular-expression primitives.  Each takes the offset reached so far,   *)
(* or -1 when the match has already failed, and returns the offset after   *)
(* its own part, or -1.  Every repetition below is followed by a character *)
(* outside its class, so the greedy choice is the only one that can match. *)

RECURSIVE SkipSpace(_, _)
SkipSpace(s, pos) ==
    IF pos < Len(s) /\ IsSpace(At(s, pos)) THEN SkipSpace(s, pos + 1) ELSE pos

RECURSIVE SkipDigit(_, _)
SkipDigit(s, pos) ==
    IF pos < Len(s) /\ IsDigit(At(s, pos)) THEN SkipDigit(s, pos + 1) ELSE pos

RECURSIVE SkipNotQuote(_, _)
SkipNotQuote(s, pos) ==
    IF pos < Len(s) /\ At(s, pos) # "\"" THEN SkipNotQuote(s, pos + 1) ELSE pos

Lit(s, pos, c) == IF CharIs(s, pos, c) THEN pos + 1 ELSE -1

Word(s, pos, lit) == IF StartsWith(s, pos, lit) THEN pos + Len(lit) ELSE -1

Spaces0(s, pos) == IF pos = -1 THEN -1 ELSE SkipSpace(s, pos)

Spaces1(s, pos) ==
    IF pos = -1 \/ SkipSpace(s, pos) = pos THEN -1 ELSE SkipSpace(s, pos)

Digits1(s, pos) ==
    IF pos = -1 \/ SkipDigit(s, pos) = pos THEN -1 ELSE SkipDigit(s, pos)

NotQuote0(s, pos) == IF pos = -1 THEN -1 ELSE SkipNotQuote(s, pos)

NotQuote1(s, pos) ==
    IF pos = -1 \/ SkipNotQuote(s, pos) = pos THEN -1 ELSE SkipNotQuote(s, pos)

-----------------------------------------------------------------------------
(* Literals of the source *)

Genes == <<"g","e","n","e","s">>

GenesOpen == <<"g","e","n","e","s","=","{">>

HairColor == <<"h","a","i","r","_","c","o","l","o","r">>

SkinColor == <<"s","k","i","n","_","c","o","l","o","r">>

EyeColor == <<"e","y","e","_","c","o","l","o","r">>

ErrorPrefix == <<"E","r","r","o","r",":"," ">>

NotFoundMsg ==
    <<"C","o","u","l","d"," ","n","o","t"," ","f","i","n","d"," ","'","g","e",
      "n","e","s","'"," ","s","e","c","t","i","o","n"," ","i","n"," ","i","n",
      "p","u","t">>

NoClosingMsg ==
    <<"C","o","u","l","d"," ","n","o","t"," ","f","i","n","d"," ","c","l","o",
      "s","i","n","g"," ","b","r","a","c","e"," ","f","o","r"," ","'","g","e",
      "n","e","s","'"," ","s","e","c","t","i","o","n">>

EmptyMsg ==
    <<"D","N","A"," ","t","e","x","t"," ","i","s"," ","e","m","p","t","y">>

NoException == "none"

-----------------------------------------------------------------------------
(* _extract_genes_section *)

\* start_pattern = r'genes\s*=\s*\{' tried at pos: the offset after the match, or -1
StartPatternEnd(s, pos) ==
    Lit(s, Spaces0(s, Lit(s, Spaces0(s, Word(s, pos, Genes)), "=")), "{")

\* re.search(start_pattern, s): the leftmost offset at which the pattern
\* matches, or -1
Search(s) ==
    LET starts == {p \in 0..(Len(s) - 1) : StartPatternEnd(s, p) # -1}
    IN  IF starts = {} THEN -1 ELSE Least(starts)

RECURSIVE CountBracesFlat(_, _, _)
CountBracesFlat(s, pos, open_braces) ==
    IF pos < Len(s) /\ open_braces > 0
    THEN CountBracesFlat(s, pos + 1,
                         IF At(s, pos) = "}" THEN open_braces - 1 ELSE open_braces)
    ELSE [pos |-> pos, open_braces |-> open_braces]

\* the while loop: the offset and the count it stops with
RECURSIVE CountBraces(_, _, _)
CountBraces(s, pos, open_braces) ==
    IF pos < Len(s) /\ open_braces > 0
    THEN CountBraces(s, pos + 1,
                     IF At(s, pos) = "{" THEN open_braces + 1
                     ELSE IF At(s, pos) = "}" THEN open_braces - 1
                     ELSE open_braces)
    ELSE [pos |-> pos, open_braces |-> open_braces]

ValueError(msg) ==
    [exc |-> "ValueError", msg |-> msg, genes_section |-> <<>>,
     start_pos |-> -1, end_pos |-> -1]

extract_genes_section_unchecked(s) ==
    LET m == Search(s)
        brace_start == StartPatternEnd(s, m) - 1
        scan == CountBraces(s, brace_start + 1, 1)
    IN  IF m = -1
        THEN [exc |-> "AttributeError", msg |-> <<"N","o","n","e">>,
              genes_section |-> <<>>, start_pos |-> -1, end_pos |-> -1]
        ELSE IF scan.open_braces > 0 THEN ValueError(NoClosingMsg)
        ELSE [exc |-> NoException, msg |-> <<>>,
              genes_section |-> Slice(s, m, scan.pos),
              start_pos |-> m, end_pos |-> scan.pos]

extract_genes_section_lenient(s) ==
    LET m == Search(s)
        brace_start == StartPatternEnd(s, m) - 1
        scan == CountBraces(s, brace_start + 1, 1)
    IN  IF m = -1 THEN ValueError(NotFoundMsg)
        ELSE [exc |-> NoException, msg |-> <<>>,
              genes_section |-> Slice(s, m, scan.pos),
              start_pos |-> m, end_pos |-> scan.pos]

extract_genes_section(s) ==
    LET m == Search(s)
        brace_start == StartPatternEnd(s, m) - 1
        scan == CountBraces(s, brace_start + 1, 1)
    IN  IF m = -1 THEN ValueError(NotFoundMsg)
        ELSE IF scan.open_braces > 0 THEN ValueError(NoClosingMsg)
        ELSE [exc |-> NoException, msg |-> <<>>,
              genes_section |-> Slice(s, m, scan.pos),
              start_pos |-> m, end_pos |-> scan.pos]

-----------------------------------------------------------------------------
(* _duplicate_color_genes *)

ColorName(s, pos) ==
    IF StartsWith(s, pos, HairColor) THEN HairColor
    ELSE IF StartsWith(s, pos, SkinColor) THEN SkinColor
    ELSE IF StartsWith(s, pos, EyeColor) THEN EyeColor
    ELSE <<>>

\* color_pattern tried at pos: the end of the match (-1: none) and its groups
ColorMatch(s, pos) ==
    LET name == ColorName(s, pos)
        p0 == IF name = <<>> THEN -1 ELSE pos + Len(name)
        p1 == Spaces0(s, Lit(s, Lit(s, p0, "="), "{"))
        p2 == Digits1(s, p1)
        p3 == Spaces1(s, p2)
        p4 == Digits1(s, p3)
        p5 == Spaces1(s, p4)
        p6 == Digits1(s, p5)
        p7 == Spaces1(s, p6)
        p8 == Digits1(s, p7)
        p9 == Lit(s, Spaces0(s, p8), "}")
    IN  IF p9 = -1 THEN [end |-> -1]
        ELSE [end |-> p9, group1 |-> name, group2 |-> Slice(s, p1, p2),
              group3 |-> Slice(s, p3, p4), group4 |-> Slice(s, p5, p6),
              group5 |-> Slice(s, p7, p8)]

color_replacer_kept(match) ==
    match.group1 \o <<"=", "{", " ">> \o match.group2 \o <<" ">> \o match.group3
        \o <<" ">> \o match.group4 \o <<" ">> \o match.group5 \o <<" ", "}">>

color_replacer(match) ==
    match.group1 \o <<"=", "{", " ">> \o match.group2 \o <<" ">> \o match.group3
        \o <<" ">> \o match.group2 \o <<" ">> \o match.group3 \o <<" ", "}">>

\* re.sub(color_pattern, color_replacer, s) from offset pos on: the text up
\* to the leftmost match at or after pos is copied, the match is replaced and
\* the scan goes on after it
RECURSIVE ColorSub(_, _)
ColorSub(s, pos) ==
    LET starts == {p \in pos..(Len(s) - 1) : ColorMatch(s, p).end # -1}
        match == ColorMatch(s, Least(starts))
    IN  IF starts = {} THEN Slice(s, pos, Len(s))
        ELSE Slice(s, pos, Least(starts)) \o color_replacer(match)
                 \o ColorSub(s, match.end)

duplicate_color_genes(content) == ColorSub(content, 0)

-----------------------------------------------------------------------------
(* _duplicate_regular_genes *)

\* a key that may also be a bare number
LooseKey(s, pos) ==
    IF CharIs(s, pos, "\"") THEN Lit(s, NotQuote1(s, pos + 1), "\"")
    ELSE Digits1(s, pos)

RegularMatchUnquoted(s, pos) ==
    LET p0 == Spaces0(s, Lit(s, pos, "{"))
        p2 == LooseKey(s, p0)
        p3 == Spaces1(s, p2)
        p4 == Digits1(s, p3)
        p5 == Spaces1(s, p4)
        p6 == LooseKey(s, p5)
        p7 == Spaces1(s, p6)
        p8 == Digits1(s, p7)
        p9 == Lit(s, Spaces0(s, p8), "}")
        bare(a, b) == IF At(s, a) = "\"" THEN Slice(s, a + 1, b - 1) ELSE Slice(s, a, b)
    IN  IF p9 = -1 THEN [end |-> -1]
        ELSE [end |-> p9, group2 |-> bare(p0, p2), group4 |-> Slice(s, p3, p4),
              group6 |-> bare(p5, p6), group8 |-> Slice(s, p7, p8)]

\* pattern tried at pos: the end of the match (-1: none) and its groups
RegularMatch(s, pos) ==
    LET p1 == Lit(s, Spaces0(s, Lit(s, pos, "{")), "\"")
        p2 == NotQuote1(s, p1)
        p3 == Spaces1(s, Lit(s, p2, "\""))
        p4 == Digits1(s, p3)
        p5 == Lit(s, Spaces1(s, p4), "\"")
        p6 == NotQuote1(s, p5)
        p7 == Spaces1(s, Lit(s, p6, "\""))
        p8 == Digits1(s, p7)
        p9 == Lit(s, Spaces0(s, p8), "}")
    IN  IF p9 = -1 THEN [end |-> -1]
        ELSE [end |-> p9, group2 |-> Slice(s, p1, p2), group4 |-> Slice(s, p3, p4),
              group6 |-> Slice(s, p5, p6), group8 |-> Slice(s, p7, p8)]

Entry(k1, v1, k2, v2) ==
    <<"{", " ", "\"">> \o k1 \o <<"\"", " ">> \o v1 \o <<" ", "\"">> \o k2
        \o <<"\"", " ">> \o v2 \o <<" ", "}">>

replacer_second(match) ==
    Entry(match.group6, match.group8, match.group6, match.group8)

replacer(match) ==
    Entry(match.group2, match.group4, match.group2, match.group4)

\* re.sub(pattern, replacer, s) from offset pos on
RECURSIVE RegularSub(_, _)
RegularSub(s, pos) ==
    LET starts == {p \in pos..(Len(s) - 1) : RegularMatch(s, p).end # -1}
        match == RegularMatch(s, Least(starts))
    IN  IF starts = {} THEN Slice(s, pos, Len(s))
        ELSE Slice(s, pos, Least(starts)) \o replacer(match)
                 \o RegularSub(s, match.end)

duplicate_regular_genes(content) == RegularSub(content, 0)

-----------------------------------------------------------------------------
(* The documents the functions are called with.  A document is a frame     *)
(* (the text before the block, the block's opening, its closing brace and  *)
(* the text after it) around up to MaxItems items separated by one space.  *)
(* An item carries its text, the text the colour pass is to leave for it   *)
(* and the text both passes are to leave for it.                           *)

MaxItems == 2

Sp == <<" ">>

Quoted(k) == <<"\"">> \o k \o <<"\"">>

Duplicated(k, v) ==
    <<"{", " ">> \o Quoted(k) \o Sp \o v \o Sp \o Quoted(k) \o Sp \o v \o <<" ", "}">>

ColorText(name, lead, sep, trail, a1, a2, b1, b2) ==
    name \o <<"=", "{">> \o lead \o a1 \o sep \o a2 \o sep \o b1 \o sep \o b2
        \o trail \o <<"}">>

ColorItem(name, lead, sep, trail, a1, a2, b1, b2) ==
    [kind |-> "color",
     text |-> ColorText(name, lead, sep, trail, a1, a2, b1, b2),
     colored |-> ColorText(name, Sp, Sp, Sp, a1, a2, a1, a2),
     final |-> ColorText(name, Sp, Sp, Sp, a1, a2, a1, a2)]

NormalText(lead, sep, trail, k1, v1, k2, v2) ==
    <<"{">> \o lead \o Quoted(k1) \o sep \o v1 \o sep \o Quoted(k2) \o sep \o v2
        \o trail \o <<"}">>

NormalItem(lead, sep, trail, k1, v1, k2, v2) ==
    [kind |-> "normal",
     text |-> NormalText(lead, sep, trail, k1, v1, k2, v2),
     colored |-> NormalText(lead, sep, trail, k1, v1, k2, v2),
     final |-> Duplicated(k1, v1)]

RawItem(text) == [kind |-> "raw", text |-> text, colored |-> text, final |-> text]

\* hair_color={ 10 20 30 40 }
HairEntry ==
    ColorItem(HairColor, Sp, Sp, Sp, <<"1","0">>, <<"2","0">>, <<"3","0">>, <<"4","0">>)

\* skin_color={1\t2\n3 \t4}
SkinEntry ==
    [kind |-> "color",
     text |-> SkinColor \o <<"=","{","1","\t","2","\n","3"," ","\t","4","}">>,
     colored |-> ColorText(SkinColor, Sp, Sp, Sp, <<"1">>, <<"2">>, <<"1">>, <<"2">>),
     final |-> ColorText(SkinColor, Sp, Sp, Sp, <<"1">>, <<"2">>, <<"1">>, <<"2">>)]

\* { "head" 5 "nose" 9 }
HeadEntry ==
    NormalItem(Sp, Sp, Sp, <<"h","e","a","d">>, <<"5">>, <<"n","o","s","e">>, <<"9">>)

\* {"a{" 1\n"b}" 2}: keys that hold braces
BraceKeyEntry == NormalItem(<<>>, <<"\n">>, <<>>, <<"a","{">>, <<"1">>, <<"b","}">>, <<"2">>)

\* { "x{ " 1 " 7 " 2 } y" 3 }: the entry { " 1 " 7 " 2 } y" 3 } begins inside
\* the first key of the entry { "x{ " 1 " 7 " 2 }
OverlapText ==
    <<"{"," ","\"","x","{"," ","\""," ","1"," ","\""," ","7"," ","\""," ","2",
      " ","}"," ","y","\""," ","3"," ","}">>

Overlapping ==
    [kind |-> "overlap", text |-> OverlapText, colored |-> OverlapText,
     final |-> Duplicated(<<"x","{"," ">>, <<"1">>) \o <<" ","y","\""," ","3"," ","}">>]

\* { "x" 5 "eye_color={ 1 2 3 4 }" 6 }: a colour entry inside the second key
ColorInKey2 ==
    [kind |-> "colorkey",
     text |-> NormalText(Sp, Sp, Sp, <<"x">>, <<"5">>,
                 ColorText(EyeColor, Sp, Sp, Sp, <<"1">>, <<"2">>, <<"3">>, <<"4">>), <<"6">>),
     colored |-> NormalText(Sp, Sp, Sp, <<"x">>, <<"5">>,
                 ColorText(EyeColor, Sp, Sp, Sp, <<"1">>, <<"2">>, <<"1">>, <<"2">>), <<"6">>),
     final |-> Duplicated(<<"x">>, <<"5">>)]

\* a={ x=1 }: a nested block
NestedBlock == RawItem(<<"a","=","{"," ","x","=","1"," ","}">>)

\* hair_color={ 1 2 3 } eye_color={ 1 2 3 4 5 }: three integers, five integers
MalformedColors ==
    RawItem(HairColor \o <<"=","{"," ","1"," ","2"," ","3"," ","}"," ">> \o EyeColor
                \o <<"=","{"," ","1"," ","2"," ","3"," ","4"," ","5"," ","}">>)

\* hair_color = { 1 2 3 4 }: white space around '='
SpacedColor ==
    RawItem(HairColor \o <<" ","=", " ","{"," ","1"," ","2"," ","3"," ","4"," ","}">>)

\* { "a" 1 "b" } { "" 1 "b" 2 }: no second value, an empty first key
MalformedEntries ==
    RawItem(<<"{"," ","\"","a","\""," ","1"," ","\"","b","\""," ","}"," ",
              "{"," ","\"","\""," ","1"," ","\"","b","\""," ","2"," ","}">>)

Items ==
    {HairEntry, SkinEntry, HeadEntry, BraceKeyEntry, Overlapping, ColorInKey2,
     NestedBlock, MalformedColors, SpacedColor, MalformedEntries}

ItemLists == UNION {[1..n -> Items] : n \in 0..MaxItems}

Frame(kind, prefix, header, closer, suffix) ==
    [kind |-> kind, prefix |-> prefix, header |-> header, closer |-> closer,
     suffix |-> suffix]

\* "block": the header matches start_pattern and the closing brace is there;
\* "open": the header matches and nothing closes it; "nomatch": the word
\* genes without a block; "nogenes": no genes keyword; "blank": white space.
Frames ==
    {Frame("block", <<>>, GenesOpen, <<"}">>, <<>>),
     Frame("block", <<"E","r","r","o","r",":"," ","\n">>,
           <<"g","e","n","e","s"," ","\t","=","\n","{">>, <<"}">>,
           <<" ","t","a","i","l","\n">>),
     Frame("block", <<" ","g","e","n","e","=","{","}"," ">>, GenesOpen, <<"}">>,
           <<" ">> \o GenesOpen \o <<" ">> \o HairEntry.text \o <<" ","}","}"," ">>),
     Frame("open", <<"g","e","n","e","s"," ">>, <<"g","e","n","e","s"," ","=","{">>,
           <<>>, <<" ","{"," ","}">>),
     Frame("nomatch", <<"g","e","n","e","s"," ","{">>, <<>>, <<"}">>, <<>>),
     Frame("nogenes", <<"g","e","n","e","=","{">>, <<>>, <<"}">>, <<>>),
     Frame("blank", <<>>, <<>>, <<>>, <<>>),
     Frame("blank", <<" ","\n","\t">>, <<>>, <<>>, <<>>)}

RECURSIVE Join(_, _)
Join(items, field) ==
    IF items = <<>> THEN Sp
    ELSE Sp \o Head(items)[field] \o Join(Tail(items), field)

\* a blank frame stays blank: it takes no items
Documents ==
    {[frame |-> f, items |-> its] : f \in {g \in Frames : g.kind # "blank"},
                                   its \in ItemLists}
    \cup {[frame |-> f, items |-> <<>>] : f \in {g \in Frames : g.kind = "blank"}}

Inner(d, field) == IF d.frame.kind = "blank" THEN <<>> ELSE Join(d.items, field)

Render(d) ==
    d.frame.prefix \o d.frame.header \o Inner(d, "text") \o d.frame.closer
        \o d.frame.suffix

-----------------------------------------------------------------------------
(* GalleryManager.  A Python None is the empty sequence and a value v that *)
(* may be None is <<v>>; a dictionary key that is absent has the value     *)
(* NoKey; a file that does not exist has the content NoFile.  A character  *)
(* name is a text, a gallery name a string.  Every value time.time()       *)
(* returns is the one value Time: no method reads a time stamp.  File      *)
(* operations succeed.                                                     *)

None == <<>>

Some(v) == <<v>>

NoKey == "no key"

Time == "time.time()"

NoFile == <<>>

DefaultGallery ==
    [name |-> "Default", characters |-> <<>>, created |-> NoKey, modified |-> NoKey]

Png == <<".","p","n","g">>

DigitChar(d) == <<"0","1","2","3","4","5","6","7","8","9">>[d + 1]

\* str(k) for k >= 0
RECURSIVE Decimal(_)
Decimal(k) ==
    IF k < 10 THEN <<DigitChar(k)>> ELSE Decimal(k \div 10) \o <<DigitChar(k % 10)>>

\* the text of the n-th value of str(uuid.uuid4())
UuidText(n) == <<"u","u","i","d","-">> \o Decimal(n)

\* a path: the directory it lies in and its file name
ImagePath(dir, file) == [dir |-> dir, file |-> file]

\* the portrait files callers pass; they lie outside images_dir
Portrait == ImagePath("pictures", <<"p",".","p","n","g">>)

exists(self, path) ==
    \/ path = Portrait
    \/ path.dir = "images" /\ path.file \in self.images_dir

\* the list f[1], ..., f[n]
RECURSIVE AsList(_, _)
AsList(f, n) == IF n = 0 THEN <<>> ELSE Append(AsList(f, n - 1), f[n])

\* the list of the F(x), x in list
Map(list, F(_)) == AsList([k \in 1..Len(list) |-> F(list[k])], Len(list))

RECURSIVE StripDots(_)
StripDots(s) ==
    IF s = <<>> THEN s
    ELSE IF Head(s) \in {".", " "} THEN StripDots(Tail(s))
    ELSE IF s[Len(s)] \in {".", " "} THEN StripDots(SubSeq(s, 1, Len(s) - 1))
    ELSE s

sanitize_filename(name) ==
    LET Replaced(c) ==
            IF c \in {"<", ">", ":", "\"", "/", "\\", "|", "?", "*", " "} THEN "_" ELSE c
        sanitized == StripDots(Map(name, Replaced))
        cut == SubSeq(sanitized, 1, IF Len(sanitized) < 100 THEN Len(sanitized) ELSE 100)
    IN  IF cut = <<>> THEN <<"c","h","a","r","a","c","t","e","r">> ELSE cut

\* f"{base_name}.png", f"{base_name}_{counter}.png"
Numbered(base_name, counter) ==
    IF counter = 0 THEN base_name \o Png
    ELSE base_name \o <<"_">> \o Decimal(counter) \o Png

\* the loops of lines 201-203 and 241-243: the first of base.png, base_1.png,
\* ... that does not exist or is the file `own`
AvailableName(self, base_name, own) ==
    LET free == {k \in 0..Cardinality(self.images_dir) :
                    \/ Numbered(base_name, k) \notin self.images_dir
                    \/ ImagePath("images", Numbered(base_name, k)) = own}
    IN  Numbered(base_name, Least(free))

\* json.dump and json.load of a character: None is written as null
JsonNull == [type |-> "null", value |-> <<>>]

JsonString(text) == [type |-> "string", value |-> text]

JsonCharacter(c) ==
    [c EXCEPT !.image = IF c.image = None THEN JsonNull
                        ELSE JsonString(c.image[1])]

PythonCharacter(j) ==
    [j EXCEPT !.image = IF j.image.type = "null" THEN None ELSE Some(j.image.value)]

json_dump_characters(characters) == Map(characters, JsonCharacter)

json_load_characters(text) == Map(text, PythonCharacter)

JsonGallery(g) == [g EXCEPT !.characters = json_dump_characters(g.characters)]

PythonGallery(j) == [j EXCEPT !.characters = json_load_characters(j.characters)]

json_dump(gs) == Map(gs, JsonGallery)

json_load(text) == Map(text, PythonGallery)

load_galleries(file) ==
    IF file = NoFile THEN <<DefaultGallery>> ELSE json_load(file[1])

save_galleries_not(self) == self

save_galleries(self) == [self EXCEPT !.data_file = Some(json_dump(self.galleries))]

any_name(gs, name) == \E k \in 1..Len(gs) : gs[k].name = name

get_gallery_names(gs) ==
    LET Name(g) == g.name
    IN  Map(gs, Name)

\* get_gallery: the index of the first gallery called name, or 0
get_gallery(gs, name) ==
    LET found == {k \in 1..Len(gs) : gs[k].name = name}
    IN  IF found = {} THEN 0 ELSE Least(found)

\* the index of the first character of cs with the id char_id, or 0
find_character(cs, char_id) ==
    LET found == {k \in 1..Len(cs) : cs[k].id = char_id}
    IN  IF found = {} THEN 0 ELSE Least(found)

\* list.pop(k)
Pop(seq, k) == SubSeq(seq, 1, k - 1) \o SubSeq(seq, k + 1, Len(seq))

\* list.remove(x): the first element equal to x is removed
Remove(seq, x) == Pop(seq, Least({k \in 1..Len(seq) : seq[k] = x}))

Return(value, self) == [value |-> value, self |-> self]

\* the method called last and the value it returned
Call(method, value) == [method |-> method, value |-> value]

\* the files of the images of the characters cs that exist
ImageFiles(self, cs) ==
    {cs[k].image[1].file : k \in {h \in 1..Len(cs) :
                                    cs[h].image # None /\ exists(self, cs[h].image[1])}}

create_gallery_unchecked(self, name, t) ==
    Return(TRUE,
           save_galleries([self EXCEPT !.galleries =
               Append(@, [name |-> name, characters |-> <<>>, created |-> t,
                          modified |-> t])]))

create_gallery(self, name, t) ==
    IF any_name(self.galleries, name) THEN Return(FALSE, self)
    ELSE Return(TRUE,
                save_galleries([self EXCEPT !.galleries =
                    Append(@, [name |-> name, characters |-> <<>>, created |-> t,
                               modified |-> t])]))

rename_gallery_unsaved(self, old_name, new_name, t) ==
    LET g == get_gallery(self.galleries, old_name)
    IN  IF any_name(self.galleries, new_name) THEN Return(FALSE, self)
        ELSE IF g # 0
        THEN Return(TRUE,
                    [self EXCEPT !.galleries[g].name = new_name,
                                 !.galleries[g].modified = t])
        ELSE Return(FALSE, self)

rename_gallery(self, old_name, new_name, t) ==
    LET g == get_gallery(self.galleries, old_name)
    IN  IF any_name(self.galleries, new_name) THEN Return(FALSE, self)
        ELSE IF g # 0
        THEN Return(TRUE,
                    save_galleries([self EXCEPT !.galleries[g].name = new_name,
                                                !.galleries[g].modified = t]))
        ELSE Return(FALSE, self)

delete_gallery_any(self, name) ==
    LET g == get_gallery(self.galleries, name)
    IN  IF g = 0 THEN Return(FALSE, self)
        ELSE Return(TRUE,
                    save_galleries(
                        [self EXCEPT
                            !.images_dir = @ \ ImageFiles(self, self.galleries[g].characters),
                            !.galleries = Remove(@, self.galleries[g])]))

delete_gallery(self, name) ==
    LET g == get_gallery(self.galleries, name)
    IN  IF Len(self.galleries) <= 1 THEN Return(FALSE, self)
        ELSE IF g = 0 THEN Return(FALSE, self)
        ELSE Return(TRUE,
                    save_galleries(
                        [self EXCEPT
                            !.images_dir = @ \ ImageFiles(self, self.galleries[g].characters),
                            !.galleries = Remove(@, self.galleries[g])]))

\* lines 181-210: the new character and the file its image is copied to
NewCharacter(self, name, dna, tags, image_path, char_id, t) ==
    LET copied == image_path # None /\ exists(self, image_path[1])
        dest == AvailableName(self, sanitize_filename(name), image_path[1])
    IN  [character |->
             [id |-> char_id, name |-> name, dna |-> dna,
              tags |-> IF tags = None \/ tags[1] = <<>> THEN <<>> ELSE tags[1],
              image |-> IF copied THEN Some(ImagePath("images", dest)) ELSE None,
              created |-> t, modified |-> t],
         files |-> IF copied THEN {dest} ELSE {}]

add_character_first(self, gallery_name, name, dna, tags, image_path, char_id, t) ==
    LET g == get_gallery(self.galleries, gallery_name)
        new == NewCharacter(self, name, dna, tags, image_path, char_id, t)
    IN  IF g = 0 THEN Return(None, self)
        ELSE Return(Some(char_id),
                    save_galleries(
                        [self EXCEPT
                            !.images_dir = @ \cup new.files,
                            !.galleries[g].characters = <<new.character>> \o @,
                            !.galleries[g].modified = t]))

add_character(self, gallery_name, name, dna, tags, image_path, char_id, t) ==
    LET g == get_gallery(self.galleries, gallery_name)
        new == NewCharacter(self, name, dna, tags, image_path, char_id, t)
    IN  IF g = 0 THEN Return(None, self)
        ELSE Return(Some(char_id),
                    save_galleries(
                        [self EXCEPT
                            !.images_dir = @ \cup new.files,
                            !.galleries[g].characters = Append(@, new.character),
                            !.galleries[g].modified = t]))

\* lines 232-251: the image of the character c once it is renamed to name,
\* and the files of images_dir after that
RenamedImage(self, c, name) ==
    LET old_image == c.image[1]
        new_image == ImagePath("images",
                               AvailableName(self, sanitize_filename(name[1]), old_image))
    IN  IF name # None /\ name[1] # c.name /\ c.image # None
           /\ exists(self, old_image) /\ new_image # old_image
        THEN [image |-> Some(new_image),
              files |-> (self.images_dir \ {old_image.file}) \cup {new_image.file}]
        ELSE [image |-> c.image, files |-> self.images_dir]

update_character(self, gallery_name, char_id, name, dna, tags, t) ==
    LET g == get_gallery(self.galleries, gallery_name)
        cs == self.galleries[g].characters
        k == find_character(cs, char_id)
        moved == RenamedImage(self, cs[k], name)
    IN  IF g = 0 THEN Return(FALSE, self)
        ELSE IF k = 0 THEN Return(FALSE, self)
        ELSE Return(TRUE,
                    save_galleries(
                        [self EXCEPT
                            !.images_dir = moved.files,
                            !.galleries[g].characters[k] =
                                [@ EXCEPT
                                    !.image = moved.image,
                                    !.name = IF name # None THEN name[1] ELSE @,
                                    !.dna = IF dna # None THEN dna[1] ELSE @,
                                    !.tags = IF tags # None THEN tags[1] ELSE @,
                                    !.modified = t],
                            !.galleries[g].modified = t]))

delete_character(self, gallery_name, char_id, t) ==
    LET g == get_gallery(self.galleries, gallery_name)
        cs == self.galleries[g].characters
        k == find_character(cs, char_id)
    IN  IF g = 0 THEN Return(FALSE, self)
        ELSE IF k = 0 THEN Return(FALSE, self)
        ELSE Return(TRUE,
                    save_galleries(
                        [self EXCEPT
                            !.images_dir = @ \ ImageFiles(self, <<cs[k]>>),
                            !.galleries[g].characters = Pop(@, k),
                            !.galleries[g].modified = t]))

\* export_gallery: folder is the characters.json and the images it writes
export_gallery(self, gallery_name) ==
    LET g == get_gallery(self.galleries, gallery_name)
        cs == self.galleries[g].characters
    IN  IF g = 0 THEN [value |-> FALSE, self |-> self, folder |-> NoFile]
        ELSE [value |-> TRUE, self |-> self,
              folder |-> Some([characters |-> json_dump_characters(cs),
                               images |-> ImageFiles(self, cs)])]

\* lines 380-395: the character import_gallery makes of the loaded char
Imported(export, char) ==
    IF UuidText(char.id) \o Png \in export.images
    THEN [char EXCEPT !.image = Some(ImagePath("images", UuidText(char.id) \o Png))]
    ELSE [char EXCEPT !.image = None]

\* import_gallery from a folder export_gallery wrote; the values of
\* uuid.uuid4() it draws are dropped, every loaded character has an id
import_gallery(self, folder, gallery_name, t) ==
    LET export == folder[1]
        chars == json_load_characters(export.characters)
        WithImage(char) == Imported(export, char)
        added == Map(chars, WithImage)
        copied == {added[k].image[1].file :
                      k \in {h \in 1..Len(added) : added[h].image # None}}
    IN  IF folder = NoFile THEN Return(FALSE, self)
        ELSE Return(TRUE,
                    save_galleries(
                        [self EXCEPT
                            !.images_dir = @ \cup copied,
                            !.galleries =
                                Append(@, [name |-> gallery_name, characters |-> added,
                                           created |-> t, modified |-> t])]))

\* the state GalleryManager() leaves on a directory that holds no files
GalleryConstructed ==
    /\ galleries = load_galleries(NoFile)
    /\ data_file = NoFile
    /\ images_dir = {}
    /\ uuids = 0
    /\ returned = Call("__init__", None)

-----------------------------------------------------------------------------
(* ConfigManager.  A Python value carries its type; a dict is a function   *)
(* from its keys.  DEFAULT_CONFIG is an attribute of the class, and        *)
(* dict.copy() is shallow: the list under "recent_databases" of a copy is  *)
(* the list of DEFAULT_CONFIG itself until the key is assigned again       *)
(* (`shared`), so a change made to it in place is a change of both.        *)

PyStr(s) == [type |-> "str", value |-> s]

PyInt(n) == [type |-> "int", value |-> n]

PyBool(b) == [type |-> "bool", value |-> b]

PyNone == [type |-> "NoneType", value |-> <<>>]

PyList(items) == [type |-> "list", value |-> items]

\* the literal of lines 22-37
DefaultConfig ==
    [language |-> PyStr("en"),
     database_directory |-> PyStr("~/Documents/CK3-Character-Manager"),
     last_database |-> PyStr("default"),
     last_gallery |-> PyNone,
     window_geometry |-> PyStr("1600x900"),
     theme |-> PyStr("dark"),
     auto_backup_enabled |-> PyBool(TRUE),
     auto_backup_interval |-> PyStr("10min"),
     auto_backup_max_count |-> PyInt(10),
     show_welcome |-> PyBool(TRUE),
     recent_databases |-> PyList(<<>>),
     max_recent |-> PyInt(5),
     sort_by |-> PyStr("name"),
     sort_order |-> PyStr("asc")]

\* dict.get(key, default)
DictGet(d, key, default) == IF key \in DOMAIN d THEN d[key] ELSE default

\* d[key] = value
SetItem(d, key, value) ==
    [k \in DOMAIN d \cup {key} |-> IF k = key THEN value ELSE d[k]]

\* d.update(other)
Update(d, other) ==
    [k \in DOMAIN d \cup DOMAIN other |-> IF k \in DOMAIN other THEN other[k] ELSE d[k]]

\* seq[:n]
SliceTo(seq, n) ==
    LET stop == IF n >= 0 THEN n ELSE Len(seq) + n
        last == IF stop < 0 THEN 0 ELSE IF stop > Len(seq) THEN Len(seq) ELSE stop
    IN  SubSeq(seq, 1, last)

\* json.dump and json.load of a value
JsonValue(v) ==
    CASE v.type = "str" -> [json |-> "string", text |-> v.value]
      [] v.type = "int" -> [json |-> "number", text |-> v.value]
      [] v.type = "bool" -> [json |-> IF v.value THEN "true" ELSE "false", text |-> <<>>]
      [] v.type = "NoneType" -> [json |-> "null", text |-> <<>>]
      [] v.type = "list" -> [json |-> "array", text |-> v.value]

PythonValue(j) ==
    CASE j.json = "string" -> PyStr(j.text)
      [] j.json = "number" -> PyInt(j.text)
      [] j.json = "true" -> PyBool(TRUE)
      [] j.json = "false" -> PyBool(FALSE)
      [] j.json = "null" -> PyNone
      [] j.json = "array" -> PyList(j.text)

json_dump_config(d) == [k \in DOMAIN d |-> JsonValue(d[k])]

json_load_config(text) == [k \in DOMAIN text |-> PythonValue(text[k])]

\* _load_config for the class cls and the file content file: the dict and
\* whether its "recent_databases" list is the list of cls
load_config_bare(cls, file) ==
    IF file = NoFile THEN [config |-> cls, shared |-> TRUE]
    ELSE [config |-> json_load_config(file[1]),
          shared |-> FALSE]

load_config(cls, file) ==
    IF file = NoFile THEN [config |-> cls, shared |-> TRUE]
    ELSE [config |-> Update(cls, json_load_config(file[1])),
          shared |-> "recent_databases" \notin DOMAIN file[1]]

save(self) == [self EXCEPT !.config_file = Some(json_dump_config(self.config))]

get(self, key, default) == DictGet(self.config, key, default)

set_unsaved(self, key, value, saving) ==
    [self EXCEPT !.config = SetItem(@, key, value),
                 !.shared = IF key = "recent_databases" THEN FALSE ELSE @]

set(self, key, value, saving) ==
    LET assigned == [self EXCEPT !.config = SetItem(@, key, value),
                                 !.shared = IF key = "recent_databases" THEN FALSE ELSE @]
    IN  IF saving THEN save(assigned) ELSE assigned

Contained(seq, x) == \E k \in 1..Len(seq) : seq[k] = x

add_recent_database_untrimmed(self, db_name) ==
    LET present == "recent_databases" \in DOMAIN self.config
        recent == IF present THEN self.config["recent_databases"].value ELSE <<>>
        removed == IF Contained(recent, db_name) THEN Remove(recent, db_name) ELSE recent
        inserted == <<db_name>> \o removed
        mutated == IF present /\ self.shared
                   THEN [self EXCEPT !.DEFAULT_CONFIG =
                            SetItem(@, "recent_databases", PyList(inserted))]
                   ELSE self
    IN  set(mutated, "recent_databases", PyList(inserted), TRUE)

add_recent_database(self, db_name) ==
    LET present == "recent_databases" \in DOMAIN self.config
        recent == IF present THEN self.config["recent_databases"].value ELSE <<>>
        removed == IF Contained(recent, db_name) THEN Remove(recent, db_name) ELSE recent
        inserted == <<db_name>> \o removed
        max_recent == DictGet(self.config, "max_recent", PyInt(5))
        \* the list `recent` names is changed in place; it is the list of
        \* DEFAULT_CONFIG when it is shared
        mutated == IF present /\ self.shared
                   THEN [self EXCEPT !.DEFAULT_CONFIG =
                            SetItem(@, "recent_databases", PyList(inserted))]
                   ELSE self
    IN  set(mutated, "recent_databases",
            PyList(SliceTo(inserted, max_recent.value)), TRUE)

get_recent_databases(self) == DictGet(self.config, "recent_databases", PyList(<<>>))

\* the state ConfigManager() leaves where no config.json exists
ConfigConstructed ==
    /\ DEFAULT_CONFIG = DefaultConfig
    /\ config = load_config(DefaultConfig, NoFile).config
    /\ shared = load_config(DefaultConfig, NoFile).shared
    /\ config_file = NoFile
    /\ result = Call("__init__", PyNone)

-----------------------------------------------------------------------------
(* I18n (src/src/utils/i18n.py).  A translation is a str.format template:  *)
(* the sequence of its literal pieces and its replacement fields, "" the   *)
(* empty sequence.  A field with an empty name is the auto-numbered "{}".  *)
(* A directory is the set of its files; a file has a stem, an extension    *)
(* and, where it holds a JSON object, the dict json.load makes of it.      *)

Text(s) == [kind |-> "text", value |-> s]

Field(name) == [kind |-> "field", value |-> name]

NoArguments == [name \in {} |-> ""]

\* translation.format(**kwargs): the fields are looked up from left to right,
\* an auto-numbered field among the (absent) positional arguments
format(translation, kwargs) ==
    LET unsupplied == {k \in 1..Len(translation) :
                          /\ translation[k].kind = "field"
                          /\ translation[k].value \notin DOMAIN kwargs}
    IN  IF unsupplied = {}
        THEN [raised |-> "none",
              value |-> [k \in 1..Len(translation) |->
                            IF translation[k].kind = "field"
                            THEN Text(kwargs[translation[k].value])
                            ELSE translation[k]]]
        ELSE [raised |-> IF translation[Least(unsupplied)].value = ""
                         THEN "IndexError" ELSE "KeyError",
              value |-> <<>>]

Garbage == [json |-> FALSE, data |-> <<>>]

Json(data) == [json |-> TRUE, data |-> data]

File(stem, ext, content) == [stem |-> stem, ext |-> ext, content |-> content]

MetadataKeys == {"language", "language_code", "language_native"}

\* lines 47-63: the files _load_all_languages stores
Loaded(files) ==
    {file \in files :
        /\ file.ext = ".json"
        /\ file.content.json
        /\ {"language", "language_code"} \subseteq DOMAIN file.content.data}

\* lines 66-69
Translations(files) ==
    [lang_code \in {file.stem : file \in Loaded(files)} |->
        LET data == (CHOOSE file \in Loaded(files) : file.stem = lang_code).content.data
        IN  [k \in DOMAIN data \ MetadataKeys |-> data[k]]]

\* lines 72-76
LanguageInfo(file) ==
    LET data == file.content.data
    IN  [code |-> file.stem,
         name |-> data["language"],
         native |-> IF "language_native" \in DOMAIN data
                    THEN data["language_native"] ELSE data["language"]]

\* Python's order of the language names of the model
NameOrder == <<"Deutsch", "English", "Spanish">>

NameRank(name) == CHOOSE k \in 1..Len(NameOrder) : NameOrder[k] = name

\* lines 47-82: os.listdir gives the files in any order and list.sort is
\* stable, so every listing of the stored languages in the order of their
\* names can be the outcome
Listings(files) ==
    LET infos == {LanguageInfo(file) : file \in Loaded(files)}
        n == Cardinality(infos)
    IN  {listing \in [1..n -> infos] :
            /\ \A j, k \in 1..n : j # k => listing[j] # listing[k]
            /\ \A j, k \in 1..n :
                   j < k => NameRank(listing[j].name) <= NameRank(listing[k].name)}

\* I18n.__init__, lines 23-39, with the listing _load_all_languages made
I18n(files, default, listing) ==
    [lang_dir |-> files,
     default_lang |-> default,
     translations |-> Translations(files),
     available_languages |-> listing,
     current_lang |-> IF default \in DOMAIN Translations(files)
                      THEN default
                      ELSE IF listing # <<>> THEN listing[1].code
                      ELSE default]

\* a mutant: line 95 without the test of line 94
set_language_any(self, lang_code) ==
    Return(lang_code \in DOMAIN self.translations,
           [self EXCEPT !.current_lang = lang_code])

\* lines 94-97
set_language(self, lang_code) ==
    IF lang_code \in DOMAIN self.translations
    THEN Return(TRUE, [self EXCEPT !.current_lang = lang_code])
    ELSE Return(FALSE, self)

\* `translation = ....get(key)` followed by `if translation:`, lines 121-122
\* and 133-134: the key is there and its translation is not ""
Truthy(entries, key) == key \in DOMAIN entries /\ entries[key] # <<>>

Raise(exception) == [raised |-> exception, value |-> <<>>]

Value(v) == [raised |-> "none", value |-> v]

\* lines 124-129 and 135-140
Interpolate(translation, kwargs) ==
    IF kwargs # NoArguments
    THEN LET formatted == format(translation, kwargs)
         IN  IF formatted.raised = "none" THEN Value(formatted.value)
             ELSE IF formatted.raised = "KeyError" THEN Value(translation)
             ELSE Raise(formatted.raised)
    ELSE Value(translation)

\* I18n.t, lines 120-142: what it returns or the exception that leaves it
I18n_t(self, key, kwargs) ==
    IF /\ self.current_lang \in DOMAIN self.translations
       /\ Truthy(self.translations[self.current_lang], key)
    THEN Interpolate(self.translations[self.current_lang][key], kwargs)
    ELSE IF /\ self.current_lang # self.default_lang
            /\ self.default_lang \in DOMAIN self.translations
            /\ Truthy(self.translations[self.default_lang], key)
    THEN Interpolate(self.translations[self.default_lang][key], kwargs)
    ELSE Value(<<Text(key)>>)

\* the directory of tests/test_i18n.py, lines 23-47
TestLocales ==
    {File("en", ".json",
          Json([language |-> "English", language_code |-> "en",
                language_native |-> "English",
                hello |-> <<Text("Hello")>>,
                greeting |-> <<Text("Hello, "), Field("name"), Text("!")>>])),
     File("es", ".json",
          Json([language |-> "Spanish", language_code |-> "es",
                language_native |-> "Espanol",
                hello |-> <<Text("Hola")>>,
                greeting |-> <<Text("Hola, "), Field("name"), Text("!")>>]))}

\* the state I18n() leaves on that directory
I18nConstructed ==
    /\ lang_dir = TestLocales
    /\ default_lang = "en"
    /\ translations = I18n(TestLocales, "en", <<>>).translations
    /\ available_languages \in Listings(TestLocales)
    /\ current_lang = I18n(TestLocales, "en", available_languages).current_lang
    /\ translated = [method |-> "__init__", raised |-> "none", value |-> <<>>]

-----------------------------------------------------------------------------
(* DatabaseManager (src/src/core/database_manager.py).  self.config is a   *)
(* record whose "databases" is a function from the registered names; the   *)
(* base directory is a function from the names X of its Database_X folders *)
(* to the sets of their subfolders.  db_config.json holds str keys and str  *)
(* values only, which json.load gives back as json.dump took them, so the   *)
(* file is the dict saved last.                                            *)

Now == "now"

DbInfo(name, db_type, description) ==
    [name |-> name, type |-> db_type, created |-> Now, description |-> description]

\* lines 50 and 97: the names that look like backup folders
BackupNames == {"20240101_120000_CK3_Character_App_Alpha"}

\* lines 33-54, as a set
scan_databases(folders) == DOMAIN folders \ BackupNames

\* _save_config, lines 124-127
save_config(self) == [self EXCEPT !.config_file = Some(self.config)]

DataFolders(db_type) ==
    (IF db_type \in {"both", "character"} THEN {"character_data"} ELSE {})
        \cup (IF db_type \in {"both", "coa"} THEN {"coa_data"} ELSE {})

\* os.makedirs(..., exist_ok=True) of lines 170-179
MakeFolders(folders, name, db_type) ==
    [n \in DOMAIN folders \cup {name} |->
        IF n = name
        THEN (IF n \in DOMAIN folders THEN folders[n] ELSE {}) \cup DataFolders(db_type)
        ELSE folders[n]]

\* lines 158-181
create_database(self, name, db_type, description) ==
    IF name \in DOMAIN self.config.databases
    THEN Return(FALSE, self)
    ELSE LET registered ==
                 [self EXCEPT !.config.databases =
                     [n \in DOMAIN @ \cup {name} |->
                         IF n = name THEN DbInfo(name, db_type, description) ELSE @[n]]]
         IN  Return(TRUE, [save_config(registered) EXCEPT
                              !.base_dir = MakeFolders(@, name, db_type)])

\* a dict or a directory without one of its entries
Del(f, name) == [n \in DOMAIN f \ {name} |-> f[n]]

\* a mutant: delete_database without lines 206-209
delete_database_dangling(self, name) ==
    IF name \notin DOMAIN self.config.databases \/ name = "Default"
    THEN Return(FALSE, self)
    ELSE Return(TRUE, save_config([self EXCEPT !.config.databases = Del(@, name),
                                               !.base_dir = Del(@, name)]))

\* lines 193-212
delete_database(self, name) ==
    IF name \notin DOMAIN self.config.databases \/ name = "Default"
    THEN Return(FALSE, self)
    ELSE Return(TRUE,
            save_config(
                [self EXCEPT
                    !.config.databases = Del(@, name),
                    !.base_dir = Del(@, name),
                    !.config.current_character_db = IF @ = name THEN "Default" ELSE @,
                    !.config.current_coa_db = IF @ = name THEN "Default" ELSE @]))

\* lines 245-258
get_current_database(self, db_type) ==
    IF db_type = "character" THEN self.config.current_character_db
    ELSE self.config.current_coa_db

\* lines 271-286
set_current_database(self, name, db_type) ==
    IF name \notin DOMAIN self.config.databases THEN Return(FALSE, self)
    ELSE IF /\ db_type = "character"
            /\ self.config.databases[name].type \notin {"both", "character"}
    THEN Return(FALSE, self)
    ELSE IF /\ db_type = "coa"
            /\ self.config.databases[name].type \notin {"both", "coa"}
    THEN Return(FALSE, self)
    ELSE Return(TRUE,
            save_config(IF db_type = "character"
                        THEN [self EXCEPT !.config.current_character_db = name]
                        ELSE [self EXCEPT !.config.current_coa_db = name]))

\* lines 74-84
DetectedType(subfolders) ==
    IF {"character_data", "coa_data"} \subseteq subfolders THEN "both"
    ELSE IF "character_data" \in subfolders THEN "character"
    ELSE IF "coa_data" \in subfolders THEN "coa"
    ELSE "both"

\* DatabaseManager.__init__ with _load_config, lines 23-26 and 58-122, on a
\* base directory with these folders and this db_config.json
load_db_config(folders, file) ==
    LET read == IF file # NoFile THEN file[1]
                ELSE [current_character_db |-> "Default",
                      current_coa_db |-> "Default",
                      databases |-> <<>>]
        found == scan_databases(folders)
        \* lines 69-91
        synced == [n \in DOMAIN read.databases \cup found |->
                      IF n \in DOMAIN read.databases THEN read.databases[n]
                      ELSE DbInfo(n, DetectedType(folders[n]), "Database " \o n)]
        \* lines 94-103
        kept == [n \in {m \in DOMAIN synced : m \notin BackupNames /\ m \in DOMAIN folders}
                    |-> synced[n]]
        \* lines 106-114: create_database finds the name registered and returns
        ensured == IF "Default" \in DOMAIN kept THEN kept
                   ELSE [n \in DOMAIN kept \cup {"Default"} |->
                            IF n = "Default"
                            THEN DbInfo("Default", "both", "Default database")
                            ELSE kept[n]]
        valid == [current_character_db |->
                      IF read.current_character_db \in DOMAIN ensured
                      THEN read.current_character_db ELSE "Default",
                  current_coa_db |->
                      IF read.current_coa_db \in DOMAIN ensured
                      THEN read.current_coa_db ELSE "Default",
                  databases |-> ensured]
    IN  save_config([config |-> valid, config_file |-> file, base_dir |-> folders])

\* the state DatabaseManager() leaves on an empty base directory
DatabaseConstructed ==
    /\ db_config = load_db_config(<<>>, NoFile).config
    /\ db_config_file = load_db_config(<<>>, NoFile).config_file
    /\ base_dir = load_db_config(<<>>, NoFile).base_dir
    /\ answered = [method |-> "__init__", args |-> <<>>, value |-> TRUE,
                   before |-> load_db_config(<<>>, NoFile).config]

-----------------------------------------------------------------------------
(* AutoBackupManager (src/src/utils/auto_backup.py).  The backup directory *)
(* is the set of its files; the name of a file is its head, its stamp and  *)
(* its tail, so that startswith and endswith are tests of head and tail.   *)
(* The methods run in the caller's thread, statement by statement (`main`),*)
(* and every _backup_loop in a thread of its own (`loops`).                *)

INTERVALS ==
    ("disabled" :> 0) @@ ("1min" :> 1) @@ ("5min" :> 5) @@ ("10min" :> 10)
        @@ ("30min" :> 30)

BackupFile(head, stamp, tail, mtime) ==
    [head |-> head, stamp |-> stamp, tail |-> tail, mtime |-> mtime]

\* line 166
IsAutoBackup(file) == file.head = "auto_backup_" /\ file.tail = ".zip"

\* lines 164-171: os.listdir gives the files in any order and list.sort is
\* stable, so every listing of the backups from the newest to the oldest can
\* be the outcome
SortedBackups(files) ==
    LET backups == {file \in files : IsAutoBackup(file)}
        n == Cardinality(backups)
    IN  {listing \in [1..n -> backups] :
            /\ \A j, k \in 1..n : j # k => listing[j] # listing[k]
            /\ \A j, k \in 1..n : j < k => listing[j].mtime >= listing[k].mtime}

\* backups[max_backups:], a Python slice
SliceFrom(list, n) ==
    LET first == IF n < 0 THEN (IF Len(list) + n < 0 THEN 0 ELSE Len(list) + n)
                 ELSE (IF n > Len(list) THEN Len(list) ELSE n)
    IN  {list[k] : k \in (first + 1)..Len(list)}

\* a mutant: backups[max_backups + 1:] in line 175
Removed_fewer(backups, n) == IF Len(backups) > n THEN SliceFrom(backups, n + 1) ELSE {}

\* lines 174-177, every os.remove succeeding
Removed(backups, n) == IF Len(backups) > n THEN SliceFrom(backups, n) ELSE {}

\* cleanup_old_backups, lines 162-183: the directories it can leave
cleanup_old_backups(files, n) ==
    {files \ Removed(backups, n) : backups \in SortedBackups(files)}

\* create_backup, lines 144-158, at the time now
create_backup(files, now) ==
    {file \in files : ~(file.head = "auto_backup_" /\ file.stamp = now /\ file.tail = ".zip")}
        \cup {BackupFile("auto_backup_", now, ".zip", now)}

NoThread == 0

\* threading.Thread(target=self._backup_loop), lines 72-73
NewLoop(started_with) ==
    [pc |-> "begin", interval_seconds |-> 0, started_with |-> started_with,
     stopped |-> FALSE, late |-> FALSE]

Alive(loop) == loop.pc # "done"

Idle == [pc |-> "idle", method |-> "__init__", arg |-> "disabled",
         was_running |-> FALSE, old_interval |-> "disabled"]

\* a backup directory that holds two backups of one time and two other files
OldFiles ==
    {BackupFile("auto_backup_", 0, ".zip", 0),
     BackupFile("auto_backup_", -1, ".zip", 0),
     BackupFile("auto_backup_", 0, ".tmp", 0),
     BackupFile("before_restore_", 0, ".zip", 0)}

\* the state AutoBackupManager(db_directory, backup_directory) leaves,
\* lines 42-55
BackupConstructed ==
    /\ interval = "disabled"
    /\ max_backups = 10
    /\ is_running = FALSE
    /\ backup_thread = NoThread
    /\ stop_event = FALSE
    /\ loops = <<>>
    /\ backup_directory = OldFiles
    /\ clock = 1
    /\ main = Idle
    /\ cleaned = {}

-----------------------------------------------------------------------------
(* The calls *)

Init ==
    /\ doc \in Documents
    /\ reapplied = FALSE
    /\ input_text = Render(doc)
    /\ pc = "idle"
    /\ genes_section = <<>>
    /\ start_pos = -1
    /\ end_pos = -1
    /\ genes_content = <<>>
    /\ raised = NoException
    /\ output_text = <<>>
    /\ is_valid = FALSE
    /\ error_message = <<>>
    /\ locator_calls = 0
    /\ escaped = FALSE
    /\ GalleryConstructed
    /\ ConfigConstructed
    /\ I18nConstructed
    /\ DatabaseConstructed
    /\ BackupConstructed

validateVars == <<is_valid, error_message, locator_calls, escaped>>

\* duplicate_dna, line 22, and the except clause of lines 41-42
Extract ==
    /\ pc = "validated"
    /\ LET r == extract_genes_section(input_text)
       IN  IF r.exc # NoException
           THEN /\ raised' = r.msg
                /\ output_text' = ErrorPrefix \o r.msg
                /\ pc' = "returned"
                /\ UNCHANGED <<genes_section, start_pos, end_pos>>
           ELSE /\ genes_section' = r.genes_section
                /\ start_pos' = r.start_pos
                /\ end_pos' = r.end_pos
                /\ pc' = "extracted"
                /\ UNCHANGED <<raised, output_text>>
    /\ UNCHANGED <<doc, reapplied, input_text, genes_content>>
    /\ UNCHANGED validateVars
    /\ UNCHANGED managerVars

\* duplicate_dna, line 25
Content ==
    /\ pc = "extracted"
    /\ genes_content' =
           Slice(genes_section, Find(genes_section, "{", 0) + 1,
                 RFind(genes_section, "}", Len(genes_section) - 1))
    /\ pc' = "content"
    /\ UNCHANGED <<doc, reapplied, input_text, genes_section, start_pos, end_pos,
                   raised, output_text>>
    /\ UNCHANGED validateVars
    /\ UNCHANGED managerVars

\* duplicate_dna, line 28
Color ==
    /\ pc = "content"
    /\ genes_content' = duplicate_color_genes(genes_content)
    /\ pc' = "colored"
    /\ UNCHANGED <<doc, reapplied, input_text, genes_section, start_pos, end_pos,
                   raised, output_text>>
    /\ UNCHANGED validateVars
    /\ UNCHANGED managerVars

\* duplicate_dna, line 31
Regular ==
    /\ pc = "colored"
    /\ genes_content' = duplicate_regular_genes(genes_content)
    /\ pc' = "regular"
    /\ UNCHANGED <<doc, reapplied, input_text, genes_section, start_pos, end_pos,
                   raised, output_text>>
    /\ UNCHANGED validateVars
    /\ UNCHANGED managerVars

SplicePastEnd(text, first, last, content) ==
    Slice(text, 0, first) \o GenesOpen \o content \o <<"}">>
        \o Slice(text, last + 1, Len(text))

Splice(text, first, last, content) ==
    Slice(text, 0, first) \o GenesOpen \o content \o <<"}">>
        \o Slice(text, last, Len(text))

\* duplicate_dna, lines 34-39
Rebuild ==
    /\ pc = "regular"
    /\ output_text' = Splice(input_text, start_pos, end_pos, genes_content)
    /\ pc' = "returned"
    /\ UNCHANGED <<doc, reapplied, input_text, genes_section, start_pos, end_pos,
                   genes_content, raised>>
    /\ UNCHANGED validateVars
    /\ UNCHANGED managerVars

IsEmptyUnstripped(dna_text) == dna_text = <<>>

IsEmpty(dna_text) == dna_text = <<>> \/ Strip(dna_text) = <<>>

validate_dna_shapes(dna_text) ==
    LET r == extract_genes_section(dna_text)
    IN  IF IsEmpty(dna_text)
        THEN [is_valid |-> FALSE, error |-> EmptyMsg, calls |-> 0, escaped |-> FALSE]
        ELSE IF r.exc = NoException
                /\ duplicate_regular_genes(duplicate_color_genes(r.genes_section))
                       # r.genes_section
        THEN [is_valid |-> TRUE, error |-> <<>>, calls |-> 1, escaped |-> FALSE]
        ELSE [is_valid |-> FALSE, error |-> r.msg, calls |-> 1, escaped |-> FALSE]

\* what validate_dna returns for dna_text, and whether it called the locator
validate_dna(dna_text) ==
    LET r == extract_genes_section(dna_text)
    IN  IF IsEmpty(dna_text)
        THEN [is_valid |-> FALSE, error |-> EmptyMsg, calls |-> 0, escaped |-> FALSE]
        ELSE IF r.exc = NoException
        THEN [is_valid |-> TRUE, error |-> <<>>, calls |-> 1, escaped |-> FALSE]
        ELSE IF r.exc = "ValueError"
        THEN [is_valid |-> FALSE, error |-> r.msg, calls |-> 1, escaped |-> FALSE]
        ELSE [is_valid |-> FALSE, error |-> <<>>, calls |-> 1, escaped |-> TRUE]

\* the caller validates the document, and duplicates it next
Validate ==
    /\ pc = "idle"
    /\ LET v == validate_dna(input_text)
       IN  /\ is_valid' = v.is_valid
           /\ error_message' = v.error
           /\ locator_calls' = v.calls
           /\ escaped' = v.escaped
    /\ pc' = "validated"
    /\ UNCHANGED <<doc, reapplied, input_text, genes_section, start_pos, end_pos,
                   genes_content, raised, output_text>>
    /\ UNCHANGED managerVars

\* duplicate_dna is applied to the document it returned
Reapply ==
    /\ pc = "returned"
    /\ raised = NoException
    /\ ~reapplied
    /\ input_text' = output_text
    /\ reapplied' = TRUE
    /\ pc' = "idle"
    /\ genes_section' = <<>>
    /\ start_pos' = -1
    /\ end_pos' = -1
    /\ genes_content' = <<>>
    /\ output_text' = <<>>
    /\ is_valid' = FALSE
    /\ error_message' = <<>>
    /\ locator_calls' = 0
    /\ escaped' = FALSE
    /\ UNCHANGED <<doc, raised>>
    /\ UNCHANGED managerVars

Next ==
    \/ Extract
    \/ Content
    \/ Color
    \/ Regular
    \/ Rebuild
    \/ Validate
    \/ Reapply

Spec == Init /\ [][Next]_vars

-----------------------------------------------------------------------------
(* The calls of the GalleryManager methods *)

MaxGalleries == 3

MaxCharacters == 2

\* the galleries and the characters in them, counted together
MaxSize == 4

GalleryNames == {"Default", "Heroes"}

CharacterNames == {<<"A","/">>, <<".">>}

DnaTexts == {<<>>, GenesOpen \o <<"}">>}

TagLists == {<<>>, <<"h","e","r","o">>}

Optional(S) == {None} \cup {Some(v) : v \in S}

\* the name, dna, tags and image_path add_character is called with
Additions ==
    {<<<<"A","/">>, GenesOpen \o <<"}">>, Some(<<"h","e","r","o">>), Some(Portrait)>>,
     <<<<".">>, <<>>, None, None>>}

\* the name, dna and tags update_character is called with
Updates == Optional(CharacterNames) \X Optional(DnaTexts) \X Optional(TagLists)

\* those the calls below are made with: none of them, one of them, all three
UpdatesMade ==
    {<<None, None, None>>, <<Some(<<".">>), None, None>>, <<None, None, Some(<<>>)>>,
     <<Some(<<"A","/">>), Some(GenesOpen \o <<"}">>), Some(<<"h","e","r","o">>)>>}

CharacterIds == 1..MaxCharacters

Self == [galleries |-> galleries, data_file |-> data_file, images_dir |-> images_dir]

Population(gs) ==
    LET RECURSIVE Sum(_)
        Sum(k) == IF k = 0 THEN 0 ELSE Len(gs[k].characters) + Sum(k - 1)
    IN  Sum(Len(gs))

Size(gs) == Len(gs) + Population(gs)

\* the method called returns r.value and leaves the state r.self, which is
\* within the bounds
Becomes(method, r) ==
    /\ Len(r.self.galleries) <= MaxGalleries
    /\ Size(r.self.galleries) <= MaxSize
    /\ galleries' = r.self.galleries
    /\ data_file' = r.self.data_file
    /\ images_dir' = r.self.images_dir
    /\ returned' = Call(method, r.value)

CreateGalleryCall(name) ==
    /\ Becomes("create_gallery", create_gallery(Self, name, Time))
    /\ UNCHANGED <<uuids, dnaVars, configVars, utilVars>>

CreateGallery == \E name \in GalleryNames : CreateGalleryCall(name)

RenameGalleryCall(old_name, new_name) ==
    /\ Becomes("rename_gallery", rename_gallery(Self, old_name, new_name, Time))
    /\ UNCHANGED <<uuids, dnaVars, configVars, utilVars>>

RenameGallery ==
    \E old_name \in GalleryNames, new_name \in GalleryNames :
        RenameGalleryCall(old_name, new_name)

DeleteGalleryCall(name) ==
    /\ Becomes("delete_gallery", delete_gallery(Self, name))
    /\ UNCHANGED <<uuids, dnaVars, configVars, utilVars>>

DeleteGallery == \E name \in GalleryNames : DeleteGalleryCall(name)

\* uuid.uuid4() is drawn once the gallery is found; it returns a value it
\* has not returned before
AddCharacterCall(gallery_name, name, dna, tags, image_path) ==
    /\ uuids < MaxCharacters
    /\ LET r == add_character(Self, gallery_name, name, dna, tags, image_path,
                              uuids + 1, Time)
       IN  /\ Becomes("add_character", r)
           /\ uuids' = IF r.value = None THEN uuids ELSE uuids + 1
    /\ UNCHANGED <<dnaVars, configVars, utilVars>>

AddCharacter ==
    \E gallery_name \in GalleryNames, new \in Additions :
        AddCharacterCall(gallery_name, new[1], new[2], new[3], new[4])

UpdateCharacterCall(gallery_name, char_id, name, dna, tags) ==
    /\ Becomes("update_character", update_character(Self, gallery_name, char_id, name, dna, tags, Time))
    /\ UNCHANGED <<uuids, dnaVars, configVars, utilVars>>

UpdateCharacter ==
    \E gallery_name \in GalleryNames, char_id \in CharacterIds, update \in UpdatesMade :
        UpdateCharacterCall(gallery_name, char_id, update[1], update[2], update[3])

DeleteCharacterCall(gallery_name, char_id) ==
    /\ Becomes("delete_character", delete_character(Self, gallery_name, char_id, Time))
    /\ UNCHANGED <<uuids, dnaVars, configVars, utilVars>>

DeleteCharacter ==
    \E gallery_name \in GalleryNames, char_id \in CharacterIds :
        DeleteCharacterCall(gallery_name, char_id)

ExportGalleryCall(gallery_name) ==
    /\ Becomes("export_gallery", export_gallery(Self, gallery_name))
    /\ UNCHANGED <<uuids, dnaVars, configVars, utilVars>>

ExportGallery == \E gallery_name \in GalleryNames : ExportGalleryCall(gallery_name)

\* the folders a caller imports from: one without a characters.json and
\* those export_gallery writes for the galleries
Folders == {export_gallery(Self, name).folder : name \in GalleryNames}

ImportGalleryCall(folder, gallery_name) ==
    /\ Becomes("import_gallery", import_gallery(Self, folder, gallery_name, Time))
    /\ UNCHANGED <<uuids, dnaVars, configVars, utilVars>>

ImportGallery ==
    \E folder \in Folders, gallery_name \in GalleryNames :
        ImportGalleryCall(folder, gallery_name)

\* a new GalleryManager is opened on the same directory
Reopen ==
    /\ galleries' = load_galleries(data_file)
    /\ returned' = Call("__init__", None)
    /\ UNCHANGED <<data_file, images_dir, uuids, dnaVars, configVars, utilVars>>

\* the DNA widgets hold an empty buffer while the galleries are worked on
InitGallery ==
    /\ Init
    /\ doc = [frame |-> Frame("blank", <<>>, <<>>, <<>>, <<>>), items |-> <<>>]

NextGallery ==
    \/ CreateGallery
    \/ RenameGallery
    \/ DeleteGallery
    \/ AddCharacter
    \/ UpdateCharacter
    \/ DeleteCharacter
    \/ ExportGallery
    \/ ImportGallery
    \/ Reopen

SpecGallery == InitGallery /\ [][NextGallery]_vars

-----------------------------------------------------------------------------
(* The calls of the ConfigManager methods *)

DbNames == {"a", "b", "c"}

\* the keys and values set is called with: keys of DEFAULT_CONFIG and one
\* that is not
Settings ==
    {<<"theme", PyStr("light")>>, <<"custom", PyStr("x")>>,
     <<"max_recent", PyInt(0)>>, <<"max_recent", PyInt(1)>>, <<"max_recent", PyInt(2)>>}

\* the keys and defaults get is called with
Queries == {<<"theme", PyNone>>, <<"max_recent", PyInt(7)>>, <<"custom", PyStr("y")>>}

\* config files an earlier version of the program left: they hold some keys
OlderFiles ==
    {Some(json_dump_config([theme |-> PyStr("light")])),
     Some(json_dump_config([max_recent |-> PyInt(2)]))}

ConfigSelf ==
    [config |-> config, config_file |-> config_file, shared |-> shared,
     DEFAULT_CONFIG |-> DEFAULT_CONFIG]

\* the method called returns value and leaves the state self
ConfigBecomes(method, value, self) ==
    /\ config' = self.config
    /\ config_file' = self.config_file
    /\ shared' = self.shared
    /\ DEFAULT_CONFIG' = self.DEFAULT_CONFIG
    /\ result' = Call(method, value)

SetCall(key, value, saving) ==
    /\ ConfigBecomes("set", PyNone, set(ConfigSelf, key, value, saving))
    /\ UNCHANGED <<dnaVars, galleryVars, utilVars>>

Set ==
    \E setting \in Settings, saving \in BOOLEAN :
        SetCall(setting[1], setting[2], saving)

GetCall(key, default) ==
    /\ ConfigBecomes("get", get(ConfigSelf, key, default), ConfigSelf)
    /\ UNCHANGED <<dnaVars, galleryVars, utilVars>>

Get == \E query \in Queries : GetCall(query[1], query[2])

SaveCall ==
    /\ ConfigBecomes("save", PyNone, save(ConfigSelf))
    /\ UNCHANGED <<dnaVars, galleryVars, utilVars>>

AddRecentDatabaseCall(db_name) ==
    /\ ConfigBecomes("add_recent_database", PyNone,
                     add_recent_database(ConfigSelf, db_name))
    /\ UNCHANGED <<dnaVars, galleryVars, utilVars>>

AddRecentDatabase == \E db_name \in DbNames : AddRecentDatabaseCall(db_name)

GetRecentDatabasesCall ==
    /\ ConfigBecomes("get_recent_databases", get_recent_databases(ConfigSelf),
                     ConfigSelf)
    /\ UNCHANGED <<dnaVars, galleryVars, utilVars>>

\* a ConfigManager is constructed, in the same process, on a path that holds
\* the content file
NewConfigManager(file) ==
    /\ config_file' = file
    /\ config' = load_config(DEFAULT_CONFIG, file).config
    /\ shared' = load_config(DEFAULT_CONFIG, file).shared
    /\ result' = Call("__init__", PyNone)
    /\ UNCHANGED <<DEFAULT_CONFIG, dnaVars, galleryVars, utilVars>>

\* on the same file, on a path where no file is, on a file of an earlier version
Construct == \E file \in {config_file, NoFile} \cup OlderFiles : NewConfigManager(file)

NextConfig ==
    \/ Set
    \/ Get
    \/ SaveCall
    \/ AddRecentDatabase
    \/ GetRecentDatabasesCall
    \/ Construct

SpecConfig == InitGallery /\ [][NextConfig]_vars

-----------------------------------------------------------------------------
(* What the claims speak of, said without the scans of the code *)

Contains(s, sub) ==
    \E p \in 0..(Len(s) - Len(sub)) :
        At(s, p) = sub[1] /\ Slice(s, p, p + Len(sub)) = sub

Blank(s) == \A k \in 1..Len(s) : IsSpace(s[k])

AllOf(s, a, b, Class(_)) == \A k \in a..(b - 1) : Class(At(s, k))

\* the offsets of the '{' of a match of genes\s*=\s*\{ that begins at p
BraceOffsets(s, p) ==
    IF ~StartsWith(s, p, Genes) THEN {}
    ELSE {j \in (p + 6)..(Len(s) - 1) :
            /\ At(s, j) = "{"
            /\ \E i \in (p + 5)..(j - 1) :
                 /\ At(s, i) = "="
                 /\ AllOf(s, p + 5, i, IsSpace)
                 /\ AllOf(s, i + 1, j, IsSpace)}

MatchOffsets(s) ==
    {p \in 0..(Len(s) - 1) : CharIs(s, p, "g") /\ BraceOffsets(s, p) # {}}

\* the brace depths after 1, 2, ... characters of t, counted from depth
RECURSIVE RunningDepths(_, _)
RunningDepths(t, depth) ==
    IF Len(t) = 0 THEN <<>>
    ELSE IF Len(t) = 1
    THEN <<IF t[1] = "{" THEN depth + 1
           ELSE IF t[1] = "}" THEN depth - 1
           ELSE depth>>
    ELSE LET half == Len(t) \div 2
             left == RunningDepths(SubSeq(t, 1, half), depth)
         IN  left \o RunningDepths(SubSeq(t, half + 1, Len(t)), left[half])

\* the first genes block of s: whether genes\s*=\s*\{ matches anywhere, the
\* offset of the first match and of its '{', whether the depth opened by that
\* '{' returns to 0, and the offset just past the '}' where it first does
Block(s) ==
    LET matches == MatchOffsets(s)
        first == Least(matches)
        brace == CHOOSE j \in BraceOffsets(s, first) : TRUE
        depths == RunningDepths(Slice(s, brace, Len(s)), 0)
        zeros == {k \in 1..Len(depths) : depths[k] = 0}
        least == Least(zeros)
    IN  IF matches = {} THEN [found |-> FALSE, closed |-> FALSE]
        ELSE IF zeros = {} THEN [found |-> TRUE, closed |-> FALSE, start |-> first]
        ELSE [found |-> TRUE, closed |-> TRUE, start |-> first, brace |-> brace,
              end |-> brace + least, matches |-> matches, depths |-> depths]

HasBlock(s) == Block(s).closed

Returned == pc = "returned"

Succeeded == pc = "returned" /\ raised = NoException

JustValidated == pc = "validated"

FirstBlock == ~reapplied /\ doc.frame.kind = "block"

Expected(d, field) ==
    d.frame.prefix \o GenesOpen \o Inner(d, field) \o <<"}">> \o d.frame.suffix

IsError(s) == StartsWith(s, 0, <<"E","r","r","o","r",":">>)

-----------------------------------------------------------------------------
\* C1: when the locator succeeds with span (start, end), duplicate_dna returns
\* document[:start] + "genes={" + rewritten_inner + "}" + document[end:]; the
\* text before the block and the text after it, later genes blocks included,
\* are those of the input.
ThmC1_OutsideUnchanged ==
    Succeeded =>
        /\ LET b == Block(input_text)
           IN  output_text =
                   Slice(input_text, 0, b.start) \o GenesOpen \o genes_content
                       \o <<"}">> \o Slice(input_text, b.end, Len(input_text))
        /\ FirstBlock =>
               /\ Slice(output_text, 0, Len(doc.frame.prefix)) = doc.frame.prefix
               /\ Slice(output_text, Len(output_text) - Len(doc.frame.suffix),
                        Len(output_text)) = doc.frame.suffix
               /\ Len(output_text) =
                      Len(doc.frame.prefix) + Len(GenesOpen) + Len(genes_content)
                          + 1 + Len(doc.frame.suffix)

WitC1_OutsideUnchanged ==
    /\ Succeeded
    /\ FirstBlock
    /\ doc.frame.prefix # <<>>
    /\ IsSpace(Head(doc.frame.prefix))
    /\ Contains(doc.frame.suffix, GenesOpen)
    /\ doc.items = <<HairEntry, HeadEntry>>
    /\ output_text # input_text

\* C2: the locator returns as start the offset of the first match of
\* genes\s*=\s*\{ and as end the offset just past the '}' at which the brace
\* depth first returns to 0, the outer closing brace when blocks are nested;
\* it fails only when there is no such match or no such brace.
ThmC2_LocatorSpan ==
    /\ pc = "extracted" =>
           LET b == Block(input_text)
           IN  /\ b.closed
               /\ start_pos = b.start
               /\ end_pos = b.end
               /\ At(input_text, end_pos - 1) = "}"
               /\ genes_section = Slice(input_text, start_pos, end_pos)
    /\ (pc = "returned" /\ raised # NoException) => ~HasBlock(input_text)

WitC2_LocatorSpan ==
    /\ pc = "extracted"
    /\ ~reapplied
    /\ doc.items = <<NestedBlock, HairEntry>>
    /\ start_pos > 0
    /\ end_pos < Len(input_text)
    /\ LET b == Block(input_text)
       IN  /\ Cardinality(b.matches) > 1
           /\ \E k \in 2..(end_pos - b.brace - 1) :
                  At(input_text, b.brace + k - 1) = "}" /\ b.depths[k] = 1

\* C3: the colour pass rewrites every entry hair_color/skin_color/eye_color=
\* { a1 a2 b1 b2 } of the block, not only the first, to key={ a1 a2 a1 a2 },
\* in the original order; genes={ hair_color={ 10 20 30 40 } } becomes
\* genes={ hair_color={ 10 20 10 20 } }.
ThmC3_ColorEntries ==
    /\ (pc = "colored" /\ FirstBlock) => genes_content = Inner(doc, "colored")
    /\ (Returned /\ input_text =
            <<"g","e","n","e","s","=","{"," ","h","a","i","r","_","c","o","l","o",
              "r","=","{"," ","1","0"," ","2","0"," ","3","0"," ","4","0"," ","}",
              " ","}">>)
           => output_text =
                  <<"g","e","n","e","s","=","{"," ","h","a","i","r","_","c","o","l",
                    "o","r","=","{"," ","1","0"," ","2","0"," ","1","0"," ","2","0",
                    " ","}"," ","}">>

WitC3_ColorEntries ==
    /\ pc = "colored"
    /\ FirstBlock
    /\ doc.items = <<SkinEntry, HairEntry>>
    /\ genes_content # Inner(doc, "text")
    /\ Contains(genes_content,
                SkinColor \o <<"=","{"," ","1"," ","2"," ","1"," ","2"," ","}"," ">>
                    \o HairColor \o <<"=","{"," ","1","0"," ","2","0"," ","1","0",
                                      " ","2","0"," ","}">>)

\* the offset of the first c in s[from:], or -1
Next1(s, c, from) ==
    LET places == {k \in from..(Len(s) - 1) : At(s, k) = c}
    IN  IF places = {} THEN -1 ELSE Least(places)

NextQuote(s, from) == Next1(s, "\"", from)

\* s[a:b] is white space, then digits, then white space, none of them empty
SpacedNumber(s, a, b) ==
    \E x \in (a + 1)..(b - 2) : \E y \in (x + 1)..(b - 1) :
        AllOf(s, a, x, IsSpace) /\ AllOf(s, x, y, IsDigit) /\ AllOf(s, y, b, IsSpace)

\* the digits of s[a:b]
Number(s, a, b) ==
    LET digits == {k \in a..(b - 1) : IsDigit(At(s, k))}
    IN  Slice(s, Least(digits), Least(digits) + Cardinality(digits))

\* the entry { "K1" V1 "K2" V2 } that begins at offset i of s, if there is one:
\* its four quotes are the next four of s, and it ends at the first '}' after
\* the second value
EntryAt(s, i) ==
    LET q1 == NextQuote(s, i + 1)
        q2 == NextQuote(s, q1 + 1)
        q3 == NextQuote(s, q2 + 1)
        q4 == NextQuote(s, q3 + 1)
        close == Next1(s, "}", q4 + 1)
    IN  IF /\ CharIs(s, i, "{")
           /\ q1 # -1 /\ AllOf(s, i + 1, q1, IsSpace)
           /\ q2 # -1 /\ q2 > q1 + 1
           /\ q3 # -1 /\ SpacedNumber(s, q2 + 1, q3)
           /\ q4 # -1 /\ q4 > q3 + 1
           /\ close # -1
           /\ \E x \in (q4 + 2)..(close - 1) : \E y \in (x + 1)..close :
                  /\ AllOf(s, q4 + 1, x, IsSpace)
                  /\ AllOf(s, x, y, IsDigit)
                  /\ AllOf(s, y, close, IsSpace)
        THEN [ok |-> TRUE, end |-> close + 1, k1 |-> Slice(s, q1 + 1, q2),
              v1 |-> Number(s, q2 + 1, q3)]
        ELSE [ok |-> FALSE]

EntryOffsets(s) == {i \in 0..(Len(s) - 1) : CharIs(s, i, "{") /\ EntryAt(s, i).ok}

\* the entries of s that do not begin inside an entry that begins before them
OuterEntryOffsets(s) ==
    LET all == EntryOffsets(s)
    IN  {i \in all : ~\E h \in all : h < i /\ i < EntryAt(s, h).end}

\* C4 as stated: the normal-gene pass rewrites every entry of shape
\* { "K1" V1 "K2" V2 } to exactly { "K1" V1 "K1" V1 }.
OrigC4_EveryEntry ==
    [][(pc = "colored" /\ pc' = "regular") =>
           \A i \in EntryOffsets(genes_content) :
               Contains(genes_content',
                        Duplicated(EntryAt(genes_content, i).k1,
                                   EntryAt(genes_content, i).v1))]_vars

\* C4, amended: the normal-gene pass rewrites every entry of shape
\* { "K1" V1 "K2" V2 } that does not begin inside an earlier entry of that
\* shape to exactly { "K1" V1 "K1" V1 }, discarding the second key and value;
\* genes={ { "head" 5 "nose" 9 } } becomes genes={ { "head" 5 "head" 5 } }.
ThmC4_ScannedEntries ==
    [][(pc = "colored" /\ pc' = "regular") =>
           /\ \A i \in OuterEntryOffsets(genes_content) :
                  Contains(genes_content',
                           Duplicated(EntryAt(genes_content, i).k1,
                                      EntryAt(genes_content, i).v1))
           /\ FirstBlock => genes_content' = Inner(doc, "final")
           /\ genes_content = <<" ","{"," ","\"","h","e","a","d","\""," ","5"," ",
                                "\"","n","o","s","e","\""," ","9"," ","}"," ">>
                  => genes_content' =
                         <<" ","{"," ","\"","h","e","a","d","\""," ","5"," ","\"",
                           "h","e","a","d","\""," ","5"," ","}"," ">>]_vars

WitC4_ScannedEntries ==
    /\ pc = "regular"
    /\ FirstBlock
    /\ doc.items = <<Overlapping, HeadEntry>>
    /\ genes_content = Inner(doc, "final")
    /\ Contains(genes_content, Duplicated(<<"h","e","a","d">>, <<"5">>))
    /\ ~Contains(genes_content, <<"n","o","s","e">>)
    /\ Cardinality(EntryOffsets(Inner(doc, "text"))) = 3

\* C5 as stated: duplicate_dna is idempotent; applied to the document it
\* returned for a document with a genes block, it succeeds and returns that
\* document unchanged.
OrigC5_Idempotent ==
    (reapplied /\ Returned) => (raised = NoException /\ output_text = input_text)

NoGenesKeyword(s) == ~Contains(s, <<"g","e","n","e","s">>)

ThmC7_Unbalanced ==
    ((Returned \/ JustValidated) /\ Block(input_text).found
         /\ ~Block(input_text).closed) =>
        /\ Returned =>
               /\ IsError(output_text)
               /\ Slice(output_text, 7, Len(output_text)) = NoClosingMsg
        /\ JustValidated => (~is_valid /\ error_message = NoClosingMsg)

WitC7_Unbalanced ==
    /\ Returned
    /\ ~reapplied
    /\ doc.frame.kind = "open"
    /\ doc.items = <<HeadEntry, NestedBlock>>
    /\ ~is_valid
    /\ IsError(output_text)

ThmC10_PassesNeverFail ==
    Returned =>
        /\ HasBlock(input_text) => raised = NoException
        /\ FirstBlock =>
               /\ raised = NoException
               /\ output_text = Expected(doc, "final")
               /\ (\A k \in 1..Len(doc.items) : doc.items[k].kind = "raw") =>
                      genes_content = Inner(doc, "text")

WitC10_PassesNeverFail ==
    /\ Succeeded
    /\ FirstBlock
    /\ doc.items = <<MalformedEntries, MalformedColors>>
    /\ genes_content = Inner(doc, "text")
    /\ output_text = input_text

-----------------------------------------------------------------------------
\* the colour entry that begins at offset p of s when white space may stand
\* before and after '=', inside the braces and between the four integers
TolerantColorAt(s, p) ==
    LET name == ColorName(s, p)
        p0 == IF name = <<>> THEN -1 ELSE p + Len(name)
        p1 == Spaces0(s, Lit(s, Spaces0(s, Lit(s, Spaces0(s, p0), "=")), "{"))
        p2 == Digits1(s, p1)
        p3 == Spaces1(s, p2)
        p4 == Digits1(s, p3)
        p5 == Digits1(s, Spaces1(s, p4))
        p6 == Digits1(s, Spaces1(s, p5))
        p7 == Lit(s, Spaces0(s, p6), "}")
    IN  IF p7 = -1 THEN [ok |-> FALSE]
        ELSE [ok |-> TRUE, end |-> p7,
              duplicated |-> ColorText(name, Sp, Sp, Sp, Slice(s, p1, p2),
                                       Slice(s, p3, p4), Slice(s, p1, p2),
                                       Slice(s, p3, p4))]

TolerantColorOffsets(s) ==
    {p \in 0..(Len(s) - 1) : ColorName(s, p) # <<>> /\ TolerantColorAt(s, p).ok}

\* C11 as stated: the colour match is white-space tolerant: an entry whose key
\* name, '=', '{', four integers and '}' are separated by arbitrary white
\* space, such as hair_color = { 1 2 3 4 }, is rewritten to the duplicated form
\* just like hair_color={ 1 2 3 4 }.
OrigC11_WhitespaceTolerant ==
    [][(pc = "content" /\ pc' = "colored") =>
           \A p \in TolerantColorOffsets(genes_content) :
               Contains(genes_content', TolerantColorAt(genes_content, p).duplicated)]_vars

\* the entry key={ a1 a2 a1 a2 }, as the colour pass writes it, at offset p of s
WrittenColorAt(s, p) ==
    LET name == ColorName(s, p)
        p0 == IF name = <<>> THEN -1 ELSE p + Len(name)
        p1 == Word(s, p0, <<"=", "{", " ">>)
        p2 == Digits1(s, p1)
        p3 == Lit(s, p2, " ")
        p4 == Digits1(s, p3)
    IN  IF p4 = -1 THEN [ok |-> FALSE]
        ELSE LET text == ColorText(name, Sp, Sp, Sp, Slice(s, p1, p2),
                                   Slice(s, p3, p4), Slice(s, p1, p2), Slice(s, p3, p4))
             IN  IF StartsWith(s, p, text)
                 THEN [ok |-> TRUE, end |-> p + Len(text), text |-> text]
                 ELSE [ok |-> FALSE]

WrittenColorOffsets(s) ==
    {p \in 0..(Len(s) - 1) : ColorName(s, p) # <<>> /\ WrittenColorAt(s, p).ok}

\* the written colour entries of s that lie inside no normal-gene entry
FreeColorOffsets(s) ==
    LET entries == EntryOffsets(s)
    IN  {p \in WrittenColorOffsets(s) :
            ~\E h \in entries : h < p /\ p < EntryAt(s, h).end}

\* the texts of the written colour entries at the offsets offs, in their order
RECURSIVE ColorTexts(_, _)
ColorTexts(s, offs) ==
    IF offs = {} THEN <<>>
    ELSE <<WrittenColorAt(s, Least(offs)).text>>
             \o ColorTexts(s, offs \ {Least(offs)})

\* a is b with some elements left out
RECURSIVE IsSubsequence(_, _)
IsSubsequence(a, b) ==
    IF a = <<>> THEN TRUE
    ELSE IF b = <<>> THEN FALSE
    ELSE IF Head(a) = Head(b) THEN IsSubsequence(Tail(a), Tail(b))
    ELSE IsSubsequence(a, Tail(b))

\* C12 as stated: the normal-gene pass, run on the output of the colour pass,
\* never matches or alters text a colour rewrite produced: each colour entry
\* the first pass wrote is in the final output.
OrigC12_PassesDisjoint ==
    [][(pc = "colored" /\ pc' = "regular") =>
           IsSubsequence(ColorTexts(genes_content, WrittenColorOffsets(genes_content)),
                         ColorTexts(genes_content', WrittenColorOffsets(genes_content')))]_vars

\* C12, amended: the normal-gene pass, run on the output of the colour pass,
\* never matches or alters text a colour rewrite produced unless that text lies
\* inside a normal-gene entry (in one of its quoted keys): each colour entry
\* outside the normal-gene entries is in the final output exactly as the first
\* pass wrote it, and when no colour entry lies inside a normal-gene entry the
\* colour entries of the final output are those the first pass wrote.
ThmC12_DisjointOutsideKeys ==
    [][(pc = "colored" /\ pc' = "regular") =>
           LET free == FreeColorOffsets(genes_content)
               before == WrittenColorOffsets(genes_content)
               after == ColorTexts(genes_content', WrittenColorOffsets(genes_content'))
           IN  /\ IsSubsequence(ColorTexts(genes_content, free), after)
               /\ free = before => after = ColorTexts(genes_content, before)]_vars

WitC12_DisjointOutsideKeys ==
    /\ pc = "regular"
    /\ FirstBlock
    /\ doc.items = <<ColorInKey2, HairEntry>>
    /\ Contains(genes_content, HairEntry.colored)
    /\ Contains(genes_content, Duplicated(<<"x">>, <<"5">>))
    /\ ~Contains(genes_content, EyeColor)

-----------------------------------------------------------------------------
(* The claims about the GalleryManager.  Each is a statement about the     *)
(* value a method returns and the state it leaves when it is called in a   *)
(* state the manager can be in.                                            *)

Listed(gs) == {get_gallery_names(gs)[k] : k \in 1..Len(gs)}

CharactersOf(gs) ==
    LET Characters(g) == g.characters
    IN  Map(gs, Characters)

Unchanged(r) == r.self = Self

\* C13 (as stated): create_gallery with a name that exists, and rename_gallery
\* to a name that exists, return False and leave the gallery list unchanged;
\* create_gallery with an unused name returns True and adds an empty gallery of
\* that name; rename_gallery of an existing gallery to an unused name returns
\* True, after which the new name is listed, the old name is not, and the
\* characters are unchanged.
OrigC13_DuplicateNames ==
    \A name \in GalleryNames, new_name \in GalleryNames :
        LET created == create_gallery(Self, name, Time)
            renamed == rename_gallery(Self, name, new_name, Time)
        IN  /\ any_name(galleries, name) =>
                created.value = FALSE /\ Unchanged(created)
            /\ ~any_name(galleries, name) =>
                /\ created.value = TRUE
                /\ Len(created.self.galleries) = Len(galleries) + 1
                /\ SubSeq(created.self.galleries, 1, Len(galleries)) = galleries
                /\ created.self.galleries[Len(galleries) + 1].name = name
                /\ created.self.galleries[Len(galleries) + 1].characters = <<>>
            /\ any_name(galleries, new_name) =>
                renamed.value = FALSE /\ Unchanged(renamed)
            /\ (any_name(galleries, name) /\ ~any_name(galleries, new_name)) =>
                /\ renamed.value = TRUE
                /\ new_name \in Listed(renamed.self.galleries)
                /\ name \notin Listed(renamed.self.galleries)
                /\ CharactersOf(renamed.self.galleries) = CharactersOf(galleries)

\* the list seq without its k-th element
Without(seq, k) == [h \in 1..(Len(seq) - 1) |-> IF h < k THEN seq[h] ELSE seq[h + 1]]

\* C14: delete_gallery returns False and changes nothing when only one
\* gallery exists, so at least one gallery always remains; when two or more
\* exist, delete_gallery of an existing name returns True and removes exactly
\* one gallery, one of that name.
ThmC14_LastGalleryKept ==
    /\ Len(galleries) >= 1
    /\ \A name \in GalleryNames :
           LET deleted == delete_gallery(Self, name)
           IN  /\ Len(galleries) = 1 =>
                   deleted.value = FALSE /\ Unchanged(deleted)
               /\ (Len(galleries) >= 2 /\ any_name(galleries, name)) =>
                   /\ deleted.value = TRUE
                   /\ \E k \in 1..Len(galleries) :
                          /\ galleries[k].name = name
                          /\ deleted.self.galleries = Without(galleries, k)

\* "Default" was deleted while "Heroes", created after it, is kept
WitC14_LastGalleryKept ==
    /\ returned.method = "delete_gallery"
    /\ returned.value = TRUE
    /\ Len(galleries) = 1
    /\ galleries[1].name = "Heroes"
    /\ galleries[1].created = Time
    /\ delete_gallery(Self, "Heroes").value = FALSE

\* the call made last is one of the six mutating methods and reported success
Succeeds ==
    \/ /\ returned.method \in {"create_gallery", "rename_gallery", "delete_gallery",
                              "update_character", "delete_character"}
       /\ returned.value = TRUE
    \/ /\ returned.method = "add_character"
       /\ returned.value # None

\* the tags add_character is called with
GivenTags == Optional(TagLists)

\* C15: after create_gallery, rename_gallery, delete_gallery, add_character,
\* update_character or delete_character reports success, the galleries a new
\* GalleryManager loads from characters.json are the galleries in memory:
\* the same names and the same characters.
ThmC15_FileEqualsMemory ==
    Succeeds =>
        /\ data_file # NoFile
        /\ load_galleries(data_file) = galleries
        /\ get_gallery_names(load_galleries(data_file)) = get_gallery_names(galleries)
        /\ CharactersOf(load_galleries(data_file)) = CharactersOf(galleries)

\* a character with an image and one without were added, the second was
\* updated, and the file holds both
WitC15_FileEqualsMemory ==
    /\ returned.method = "update_character"
    /\ returned.value = TRUE
    /\ data_file # NoFile
    /\ load_galleries(data_file) = galleries
    /\ Len(galleries) = 1
    /\ Len(galleries[1].characters) = 2
    /\ galleries[1].characters[1].image # None
    /\ galleries[1].characters[2].image = None

\* the ids of the characters of all galleries
UsedIds(gs) == UNION {{gs[g].characters[k].id : k \in 1..Len(gs[g].characters)} :
                         g \in 1..Len(gs)}

\* gs and hs differ at most in the gallery g, and there at most in the
\* characters and the time stamp
SameButCharactersOf(gs, hs, g) ==
    /\ Len(hs) = Len(gs)
    /\ \A h \in 1..Len(gs) : h # g => hs[h] = gs[h]
    /\ hs[g].name = gs[g].name
    /\ hs[g].created = gs[g].created

\* C16: add_character on an existing gallery returns an id no character has,
\* and appends to that gallery exactly one character, with that id and the
\* given name, dna and tags; the other galleries and characters are unchanged.
\* On a gallery name that does not exist it returns None and changes nothing.
ThmC16_AddCharacter ==
    \A gallery_name \in GalleryNames, name \in CharacterNames, dna \in DnaTexts,
       tags \in GivenTags, image_path \in Optional({Portrait}) :
        LET r == add_character(Self, gallery_name, name, dna, tags, image_path,
                               uuids + 1, Time)
            g == get_gallery(galleries, gallery_name)
            old == galleries[g].characters
            new == r.self.galleries[g].characters
        IN  /\ ~any_name(galleries, gallery_name) => (r.value = None /\ Unchanged(r))
            /\ any_name(galleries, gallery_name) =>
                /\ r.value # None
                /\ r.value[1] \notin UsedIds(galleries)
                /\ galleries[g].name = gallery_name
                /\ SameButCharactersOf(galleries, r.self.galleries, g)
                /\ Len(new) = Len(old) + 1
                /\ SubSeq(new, 1, Len(old)) = old
                /\ new[Len(new)].id = r.value[1]
                /\ new[Len(new)].name = name
                /\ new[Len(new)].dna = dna
                /\ new[Len(new)].tags = (IF tags = None THEN <<>> ELSE tags[1])

\* a second character was added behind the first
WitC16_AddCharacter ==
    /\ returned.method = "add_character"
    /\ returned.value = Some(2)
    /\ get_gallery_names(galleries) = <<"Default">>
    /\ Len(galleries[1].characters) = 2
    /\ galleries[1].characters[1].id = 1
    /\ galleries[1].characters[2].id = 2
    /\ galleries[1].characters[2].tags = <<"h","e","r","o">>
    /\ add_character(Self, "Heroes", <<".">>, <<>>, None, None, 3, Time).value = None

\* the character lists cs and ds differ at most in the k-th character
SameButCharacter(cs, ds, k) ==
    /\ Len(ds) = Len(cs)
    /\ \A h \in 1..Len(cs) : h # k => ds[h] = cs[h]

\* the places <<g, k>> of the characters with the id char_id in the galleries
\* called gallery_name
Places(gs, gallery_name, char_id) ==
    {place \in (1..Len(gs)) \X CharacterIds :
        /\ gs[place[1]].name = gallery_name
        /\ place[2] <= Len(gs[place[1]].characters)
        /\ gs[place[1]].characters[place[2]].id = char_id}

\* C17 (as stated): update_character on an existing character returns True
\* and, of name, dna and tags, changes the fields passed as non-None to the
\* values passed (tags are replaced) and no other; the id and the other
\* characters are unchanged.  For an unknown gallery or id it returns False
\* and changes nothing.
OrigC17_UpdateCharacter ==
    \A gallery_name \in GalleryNames, char_id \in CharacterIds, update \in Updates :
        LET name == update[1]
            dna == update[2]
            tags == update[3]
            r == update_character(Self, gallery_name, char_id, name, dna, tags, Time)
            places == Places(galleries, gallery_name, char_id)
        IN  /\ places = {} => (r.value = FALSE /\ Unchanged(r))
            /\ places # {} =>
                /\ r.value = TRUE
                /\ \E place \in places :
                       LET g == place[1]
                           k == place[2]
                           old == galleries[g].characters[k]
                           new == r.self.galleries[g].characters[k]
                       IN  /\ SameButCharactersOf(galleries, r.self.galleries, g)
                           /\ SameButCharacter(galleries[g].characters,
                                               r.self.galleries[g].characters, k)
                           /\ new.id = old.id
                           /\ new.name = (IF name = None THEN old.name ELSE name[1])
                           /\ new.dna = (IF dna = None THEN old.dna ELSE dna[1])
                           /\ new.tags = (IF tags = None THEN old.tags ELSE tags[1])

\* C18 (as stated): delete_character on an existing character id returns
\* True and removes exactly that character from the gallery: the remaining
\* characters are the old ones in their order, and the other galleries are
\* unchanged.  For an unknown gallery or id it returns False and changes
\* nothing.
OrigC18_DeleteCharacter ==
    \A gallery_name \in GalleryNames, char_id \in CharacterIds :
        LET r == delete_character(Self, gallery_name, char_id, Time)
            places == Places(galleries, gallery_name, char_id)
        IN  /\ places = {} => (r.value = FALSE /\ Unchanged(r))
            /\ places # {} =>
                /\ r.value = TRUE
                /\ \E place \in places :
                       /\ SameButCharactersOf(galleries, r.self.galleries, place[1])
                       /\ r.self.galleries[place[1]].characters
                              = Without(galleries[place[1]].characters, place[2])

-----------------------------------------------------------------------------
(* The claims about the ConfigManager *)

NoneTwice(seq) == \A h \in 1..Len(seq), k \in 1..Len(seq) : seq[h] = seq[k] => h = k

\* the elements of seq other than x, in their order
RECURSIVE Others(_, _)
Others(seq, x) ==
    IF seq = <<>> THEN <<>>
    ELSE IF Head(seq) = x THEN Others(Tail(seq), x)
    ELSE <<Head(seq)>> \o Others(Tail(seq), x)

IsPrefix(a, b) == Len(a) <= Len(b) /\ SubSeq(b, 1, Len(a)) = a

\* C19: after add_recent_database(db_name) with max_recent >= 1, whatever
\* calls came before it, the recent-databases list holds no name twice, has
\* at most max_recent entries and begins with db_name; a name that was in the
\* list is moved to the front, the others keep their order.
ThmC19_RecentDatabases ==
    \A db_name \in DbNames :
        LET r == add_recent_database(ConfigSelf, db_name)
            old == get_recent_databases(ConfigSelf).value
            recent == get_recent_databases(r).value
            max_recent == get(r, "max_recent", PyNone).value
        IN  max_recent >= 1 =>
                /\ NoneTwice(recent)
                /\ Len(recent) <= max_recent
                /\ Len(recent) >= 1
                /\ recent[1] = db_name
                /\ IsPrefix(Tail(recent), Others(old, db_name))
                /\ Len(recent) = max_recent \/ Tail(recent) = Others(old, db_name)

\* "c" was added to a list of two with max_recent 2: the older name is gone
WitC19_RecentDatabases ==
    /\ result.method = "add_recent_database"
    /\ get(ConfigSelf, "max_recent", PyNone) = PyInt(2)
    /\ get_recent_databases(ConfigSelf) = PyList(<<"c", "b">>)
    /\ config_file # NoFile
    /\ json_load_config(config_file[1])["recent_databases"] = PyList(<<"c", "b">>)
    /\ get_recent_databases(add_recent_database(ConfigSelf, "b")) = PyList(<<"b", "c">>)

\* the keys of the file a ConfigManager was constructed on
FileKeys(file) == IF file = NoFile THEN {} ELSE DOMAIN file[1]

\* set(key, value) makes get(key) return value, here and in a new
\* ConfigManager on the same file
SetPersists ==
    \A setting \in Settings :
        LET key == setting[1]
            value == setting[2]
            self == set(ConfigSelf, key, value, TRUE)
            loaded == load_config(self.DEFAULT_CONFIG, self.config_file)
        IN  /\ get(self, key, PyNone) = value
            /\ self.config_file # NoFile
            /\ get([self EXCEPT !.config = loaded.config, !.shared = loaded.shared],
                   key, PyNone) = value

\* a ConfigManager just constructed on a file has, for the keys the file
\* lacks, the values DEFAULT_CONFIG is declared with
DefaultsKept ==
    (result.method = "__init__" /\ config_file # NoFile) =>
        \A key \in DOMAIN DefaultConfig \ FileKeys(config_file) :
            get(ConfigSelf, key, PyNone) = DefaultConfig[key]

\* in a ConfigManager just constructed, get(key, default) returns default
\* for a key neither the file nor DEFAULT_CONFIG has
DefaultSupplied ==
    result.method = "__init__" =>
        \A query \in Queries :
            query[1] \notin DOMAIN DefaultConfig \cup FileKeys(config_file) =>
                get(ConfigSelf, query[1], query[2]) = query[2]

\* C20 (as stated): set(key, value) makes get(key) return value and persists
\* it, so that a new ConfigManager on the same file returns the same value;
\* keys absent from the file keep their DEFAULT_CONFIG value; get(key, default)
\* for a key present in neither returns the supplied default.
OrigC20_SetGetDefaults == SetPersists /\ DefaultsKept /\ DefaultSupplied

-----------------------------------------------------------------------------
(* The calls of I18n *)

\* a directory whose files are not all language files, with an entry that is
\* "", an auto-numbered field and a key only the default language has
MixedLocales ==
    {File("en", ".json",
          Json([language |-> "English", language_code |-> "en",
                hello |-> <<Text("Hello")>>,
                welcome |-> <<Text("Welcome")>>,
                greeting |-> <<Text("Hello "), Field("")>>])),
     File("es", ".json",
          Json([language |-> "Spanish", language_code |-> "es",
                hello |-> <<>>,
                greeting |-> <<Text("Hola, "), Field("name"), Text("!")>>])),
     File("fr", ".json", Json([hello |-> <<Text("Bonjour")>>])),
     File("de", ".json", Garbage),
     File("notes", ".txt", Garbage)}

\* a directory without the default language
OtherLocales ==
    {File("es", ".json",
          Json([language |-> "Spanish", language_code |-> "es",
                hello |-> <<Text("Hola")>>])),
     File("de", ".json",
          Json([language |-> "Deutsch", language_code |-> "de",
                greeting |-> <<Text("Hallo, "), Field("name"), Text("!")>>]))}

LocaleDirs == {TestLocales, MixedLocales, OtherLocales, {}}

LangCodes == {"en", "es", "de", "fr", "zz"}

Keys == {"hello", "greeting", "welcome", "nonexistent_key"}

Arguments == {NoArguments, [name |-> "John"], [count |-> "5"],
              [name |-> "John", count |-> "5"]}

I18nSelf ==
    [lang_dir |-> lang_dir, default_lang |-> default_lang,
     current_lang |-> current_lang, translations |-> translations,
     available_languages |-> available_languages]

\* the method called ends with outcome and leaves the state self
I18nBecomes(method, outcome, self) ==
    /\ lang_dir' = self.lang_dir
    /\ default_lang' = self.default_lang
    /\ current_lang' = self.current_lang
    /\ translations' = self.translations
    /\ available_languages' = self.available_languages
    /\ translated' = [method |-> method, raised |-> outcome.raised,
                      value |-> outcome.value]

SetLanguageCall(lang_code) ==
    /\ I18nBecomes("set_language", Value(set_language(I18nSelf, lang_code).value),
                   set_language(I18nSelf, lang_code).self)
    /\ UNCHANGED <<dnaVars, galleryVars, configVars, databaseVars, backupVars>>

SetLanguage == \E lang_code \in LangCodes : SetLanguageCall(lang_code)

TCall(key, kwargs) ==
    /\ I18nBecomes("t", I18n_t(I18nSelf, key, kwargs), I18nSelf)
    /\ UNCHANGED <<dnaVars, galleryVars, configVars, databaseVars, backupVars>>

T == \E key \in Keys, kwargs \in Arguments : TCall(key, kwargs)

NewI18n(files, default) ==
    /\ \E listing \in Listings(files) :
           I18nBecomes("__init__", Value(<<>>), I18n(files, default, listing))
    /\ UNCHANGED <<dnaVars, galleryVars, configVars, databaseVars, backupVars>>

ConstructI18n ==
    \E files \in LocaleDirs, default \in {"en", "es", "de"} : NewI18n(files, default)

NextI18n ==
    \/ SetLanguage
    \/ T
    \/ ConstructI18n

SpecI18n == InitGallery /\ [][NextI18n]_vars

-----------------------------------------------------------------------------
(* I18n: what the claims speak of *)

\* the directory has a language file of that code
HasTranslations(lang_code) ==
    \E file \in lang_dir :
        /\ file.stem = lang_code /\ file.ext = ".json" /\ file.content.json
        /\ {"language", "language_code"} \subseteq DOMAIN file.content.data

\* C21: at every state, set_language with a code that has no loaded
\* translations returns False and changes nothing, with a loaded code it
\* returns True, current_lang is that code and nothing else is changed
ThmC21_SetLanguage ==
    \A lang_code \in LangCodes :
        LET r == set_language(I18nSelf, lang_code)
        IN  IF HasTranslations(lang_code)
            THEN /\ r.value = TRUE
                 /\ r.self = [I18nSelf EXCEPT !.current_lang = lang_code]
            ELSE /\ r.value = FALSE
                 /\ r.self = I18nSelf

\* C21: set_language has refused a code while another language than the
\* default one was current (test_set_language)
WitC21_Refused ==
    /\ translated.method = "set_language"
    /\ translated.value = FALSE
    /\ current_lang = "es"
    /\ default_lang = "en"

\* the language has a translation of the key that is not ""
Translates(lang_code, key) ==
    /\ lang_code \in DOMAIN translations
    /\ key \in DOMAIN translations[lang_code]
    /\ translations[lang_code][key] # <<>>

\* the template the claim says t works with
Template(key) ==
    IF Translates(current_lang, key) THEN translations[current_lang][key]
    ELSE IF Translates(default_lang, key) THEN translations[default_lang][key]
    ELSE <<Text(key)>>

Placeholders(template) ==
    {template[k].value : k \in {j \in 1..Len(template) : template[j].kind = "field"}}

\* the template with every placeholder replaced by its argument
Filled(template, kwargs) ==
    [k \in 1..Len(template) |->
        IF template[k].kind = "field" /\ template[k].value \in DOMAIN kwargs
        THEN Text(kwargs[template[k].value])
        ELSE template[k]]

\* t(key, **kwargs) does what C22 says
AsC22Says(key, kwargs) ==
    LET r == I18n_t(I18nSelf, key, kwargs)
        chosen == Template(key)
    IN  /\ r.raised = "none"
        /\ r.value = IF Placeholders(chosen) \subseteq DOMAIN kwargs
                     THEN Filled(chosen, kwargs)
                     ELSE chosen

\* C22 (as stated): at every state t returns the translation of the current
\* language, else the one of the default language, else the key, and where a
\* placeholder of that translation has no argument the template as it is;
\* no exception leaves t
OrigC22_Translation ==
    \A key \in Keys, kwargs \in Arguments : AsC22Says(key, kwargs)

\* what is left of C22 for the translations whose placeholders all have names
NamedC22_Translation ==
    \A key \in Keys, kwargs \in Arguments :
        "" \notin Placeholders(Template(key)) => AsC22Says(key, kwargs)

-----------------------------------------------------------------------------
(* The calls of DatabaseManager *)

DatabaseNames == {"Default", "Alpha", "Beta"}

\* the types the creation dialog offers and the modes of the main window
DatabaseTypes == {"both", "character", "coa"}

Modes == {"character", "coa"}

DatabaseSelf ==
    [config |-> db_config, config_file |-> db_config_file, base_dir |-> base_dir]

\* the method called with args returns r.value and leaves the state r.self
DatabaseBecomes(method, args, r) ==
    /\ db_config' = r.self.config
    /\ db_config_file' = r.self.config_file
    /\ base_dir' = r.self.base_dir
    /\ answered' = [method |-> method, args |-> args, value |-> r.value,
                    before |-> db_config]

CreateDatabaseCall(name, db_type) ==
    /\ DatabaseBecomes("create_database", <<name, db_type>>,
                       create_database(DatabaseSelf, name, db_type, ""))
    /\ UNCHANGED <<dnaVars, galleryVars, configVars, i18nVars, backupVars>>

CreateDatabase ==
    \E name \in DatabaseNames, db_type \in DatabaseTypes : CreateDatabaseCall(name, db_type)

DeleteDatabaseCall(name) ==
    /\ DatabaseBecomes("delete_database", <<name, "">>,
                       delete_database(DatabaseSelf, name))
    /\ UNCHANGED <<dnaVars, galleryVars, configVars, i18nVars, backupVars>>

DeleteDatabase == \E name \in DatabaseNames : DeleteDatabaseCall(name)

SetCurrentDatabaseCall(name, db_type) ==
    /\ DatabaseBecomes("set_current_database", <<name, db_type>>,
                       set_current_database(DatabaseSelf, name, db_type))
    /\ UNCHANGED <<dnaVars, galleryVars, configVars, i18nVars, backupVars>>

SetCurrentDatabase ==
    \E name \in DatabaseNames, db_type \in Modes : SetCurrentDatabaseCall(name, db_type)

\* a DatabaseManager is constructed on the base directory as it is, with
\* db_config.json as it is or removed
NewDatabaseManager(file) ==
    /\ DatabaseBecomes("__init__", <<"", "">>,
                       Return(TRUE, load_db_config(base_dir, file)))
    /\ UNCHANGED <<dnaVars, galleryVars, configVars, i18nVars, backupVars>>

ConstructDatabaseManager ==
    \E file \in {db_config_file, NoFile} : NewDatabaseManager(file)

NextDatabase ==
    \/ CreateDatabase
    \/ DeleteDatabase
    \/ SetCurrentDatabase
    \/ ConstructDatabaseManager

SpecDatabase == InitGallery /\ [][NextDatabase]_vars

-----------------------------------------------------------------------------
(* DatabaseManager: what the claims speak of *)

Registered == DOMAIN db_config.databases

\* the database cannot serve the mode
Incompatible(info, mode) ==
    \/ mode = "character" /\ info.type = "coa"
    \/ mode = "coa" /\ info.type = "character"

Deleted == answered.method = "delete_database" /\ answered.value = TRUE

Refused == answered.method = "set_current_database" /\ answered.value = FALSE

-----------------------------------------------------------------------------
(* The calls of AutoBackupManager and the steps of its threads *)

MaxThreads == 2

MaxClock == 3

IntervalNames == {"disabled", "1min", "5min", "hourly"}

MaxBackupCounts == {-1, 0, 1, 2}

otherVars == <<dnaVars, galleryVars, configVars, i18nVars, databaseVars>>

Calling(method, arg, pc_) ==
    [pc |-> pc_, method |-> method, arg |-> arg, was_running |-> is_running,
     old_interval |-> interval]

\* where the caller is once stop() has returned: line 106 or its own caller
AfterStop == IF main.method = "set_interval" THEN "assign" ELSE "idle"

StartCall ==
    /\ main.pc = "idle"
    /\ Len(loops) < MaxThreads
    /\ main' = Calling("start", "", "start")
    /\ UNCHANGED <<interval, max_backups, is_running, backup_thread, stop_event,
                   loops, backup_directory, clock, cleaned>>
    /\ UNCHANGED otherVars

StopCall ==
    /\ main.pc = "idle"
    /\ main' = Calling("stop", "", "stop")
    /\ UNCHANGED <<interval, max_backups, is_running, backup_thread, stop_event,
                   loops, backup_directory, clock, cleaned>>
    /\ UNCHANGED otherVars

\* set_interval, lines 97-104
SetIntervalCall(name) ==
    /\ main.pc = "idle"
    /\ Len(loops) < MaxThreads
    /\ main' = Calling("set_interval", name,
                       IF name \notin DOMAIN INTERVALS THEN "idle"
                       ELSE IF is_running THEN "stop" ELSE "assign")
    /\ UNCHANGED <<interval, max_backups, is_running, backup_thread, stop_event,
                   loops, backup_directory, clock, cleaned>>
    /\ UNCHANGED otherVars

SetInterval == \E name \in IntervalNames : SetIntervalCall(name)

\* settings_dialog.py, line 355
SetMaxBackupsTo(n) ==
    /\ main.pc = "idle"
    /\ max_backups' = n
    /\ UNCHANGED <<interval, is_running, backup_thread, stop_event, loops,
                   backup_directory, clock, main, cleaned>>
    /\ UNCHANGED otherVars

SetMaxBackups == \E n \in MaxBackupCounts : SetMaxBackupsTo(n)

\* stop, lines 79-82
StopBegin ==
    /\ main.pc = "stop"
    /\ IF ~is_running
       THEN /\ main' = [main EXCEPT !.pc = AfterStop]
            /\ UNCHANGED is_running
       ELSE /\ is_running' = FALSE
            /\ main' = [main EXCEPT !.pc = "stop_set"]
    /\ UNCHANGED <<interval, max_backups, backup_thread, stop_event, loops,
                   backup_directory, clock, cleaned>>
    /\ UNCHANGED otherVars

\* stop, lines 83-85
StopSet ==
    /\ main.pc = "stop_set"
    /\ stop_event' = TRUE
    /\ main' = [main EXCEPT !.pc = IF backup_thread # NoThread THEN "join"
                                   ELSE AfterStop]
    /\ UNCHANGED <<interval, max_backups, is_running, backup_thread, loops,
                   backup_directory, clock, cleaned>>
    /\ UNCHANGED otherVars

\* stop, line 86: join returns when the thread has ended, or after 5 seconds
\* when the thread is making a backup or cleaning up; a thread that waits
\* on the event or is between two statements ends sooner than that
StopJoin ==
    /\ main.pc = "join"
    /\ \/ ~Alive(loops[backup_thread])
       \/ loops[backup_thread].pc \in {"backup", "cleanup"}
    /\ loops' = [loops EXCEPT ![backup_thread].stopped = TRUE]
    /\ main' = [main EXCEPT !.pc = AfterStop]
    /\ UNCHANGED <<interval, max_backups, is_running, backup_thread, stop_event,
                   backup_directory, clock, cleaned>>
    /\ UNCHANGED otherVars

\* a mutant: line 110 without the test of line 109
Restarts_always(was_running, name) == TRUE

\* line 109
Restarts(was_running, name) == was_running /\ name # "disabled"

\* set_interval, lines 106-109
Assign ==
    /\ main.pc = "assign"
    /\ interval' = main.arg
    /\ main' = [main EXCEPT !.pc = IF Restarts(main.was_running, main.arg)
                                   THEN "start" ELSE "idle"]
    /\ UNCHANGED <<max_backups, is_running, backup_thread, stop_event, loops,
                   backup_directory, clock, cleaned>>
    /\ UNCHANGED otherVars

\* start, lines 61-69
StartBegin ==
    /\ main.pc = "start"
    /\ IF interval = "disabled" \/ INTERVALS[interval] = 0 \/ is_running
       THEN /\ main' = [main EXCEPT !.pc = "idle"]
            /\ UNCHANGED is_running
       ELSE /\ is_running' = TRUE
            /\ main' = [main EXCEPT !.pc = "start_clear"]
    /\ UNCHANGED <<interval, max_backups, backup_thread, stop_event, loops,
                   backup_directory, clock, cleaned>>
    /\ UNCHANGED otherVars

\* start, line 70
StartClear ==
    /\ main.pc = "start_clear"
    /\ stop_event' = FALSE
    /\ main' = [main EXCEPT !.pc = "start_thread"]
    /\ UNCHANGED <<interval, max_backups, is_running, backup_thread, loops,
                   backup_directory, clock, cleaned>>
    /\ UNCHANGED otherVars

\* start, lines 72-73
StartThread ==
    /\ main.pc = "start_thread"
    /\ loops' = Append(loops, NewLoop(interval))
    /\ backup_thread' = Len(loops) + 1
    /\ main' = [main EXCEPT !.pc = "idle"]
    /\ UNCHANGED <<interval, max_backups, is_running, stop_event,
                   backup_directory, clock, cleaned>>
    /\ UNCHANGED otherVars

Threads == 1..Len(loops)

\* _backup_loop, lines 114-115
LoopBegin(k) ==
    /\ k \in Threads
    /\ loops[k].pc = "begin"
    /\ loops' = [loops EXCEPT ![k].interval_seconds = INTERVALS[interval] * 60,
                              ![k].pc = "test"]
    /\ UNCHANGED <<interval, max_backups, is_running, backup_thread, stop_event,
                   backup_directory, clock, main, cleaned>>
    /\ UNCHANGED otherVars

\* line 117
LoopTest(k) ==
    /\ k \in Threads
    /\ loops[k].pc = "test"
    /\ loops' = [loops EXCEPT ![k].pc = IF is_running /\ ~stop_event
                                        THEN "wait" ELSE "done"]
    /\ UNCHANGED <<interval, max_backups, is_running, backup_thread, stop_event,
                   backup_directory, clock, main, cleaned>>
    /\ UNCHANGED otherVars

\* lines 119-120: the event is set, or interval_seconds have passed
LoopWait(k) ==
    /\ k \in Threads
    /\ loops[k].pc = "wait"
    /\ IF stop_event
       THEN loops' = [loops EXCEPT ![k].pc = "done"]
       ELSE /\ clock < MaxClock
            /\ loops' = [loops EXCEPT ![k].pc = "backup",
                                      ![k].late = loops[k].stopped]
    /\ UNCHANGED <<interval, max_backups, is_running, backup_thread, stop_event,
                   backup_directory, clock, main, cleaned>>
    /\ UNCHANGED otherVars

\* lines 123-129 and 134-135: create_backup writes the archive or raises
LoopBackup(k) ==
    /\ k \in Threads
    /\ loops[k].pc = "backup"
    /\ \/ /\ backup_directory' = create_backup(backup_directory, clock)
          /\ clock' = clock + 1
          /\ loops' = [loops EXCEPT ![k].pc = "cleanup"]
       \/ /\ loops' = [loops EXCEPT ![k].pc = "test"]
          /\ UNCHANGED <<backup_directory, clock>>
    /\ UNCHANGED <<interval, max_backups, is_running, backup_thread, stop_event,
                   main, cleaned>>
    /\ UNCHANGED otherVars

\* line 132
LoopCleanup(k) ==
    /\ k \in Threads
    /\ loops[k].pc = "cleanup"
    /\ backup_directory' \in cleanup_old_backups(backup_directory, max_backups)
    /\ cleaned' = backup_directory \ backup_directory'
    /\ loops' = [loops EXCEPT ![k].pc = "test"]
    /\ UNCHANGED <<interval, max_backups, is_running, backup_thread, stop_event,
                   clock, main>>
    /\ UNCHANGED otherVars

NextBackup ==
    \/ StartCall
    \/ StopCall
    \/ SetInterval
    \/ SetMaxBackups
    \/ StopBegin
    \/ StopSet
    \/ StopJoin
    \/ Assign
    \/ StartBegin
    \/ StartClear
    \/ StartThread
    \/ \E k \in 1..MaxThreads : LoopBegin(k)
    \/ \E k \in 1..MaxThreads : LoopTest(k)
    \/ \E k \in 1..MaxThreads : LoopWait(k)
    \/ \E k \in 1..MaxThreads : LoopBackup(k)
    \/ \E k \in 1..MaxThreads : LoopCleanup(k)

SpecBackup == InitGallery /\ [][NextBackup]_vars

-----------------------------------------------------------------------------
(* AutoBackupManager: what the claims speak of *)

\* a file named auto_backup_*.zip
NamedAutoBackup(file) == file.head = "auto_backup_" /\ file.tail = ".zip"

\* C25: at every state with max_backups >= 0, whatever directory
\* cleanup_old_backups leaves: it holds at most max_backups files named
\* auto_backup_*.zip, no file it kept under such a name is older than one it
\* removed, and every file it removed had such a name
ThmC25_Cleanup ==
    max_backups >= 0 =>
        \A after \in cleanup_old_backups(backup_directory, max_backups) :
            /\ after \subseteq backup_directory
            /\ Cardinality({file \in after : NamedAutoBackup(file)}) <= max_backups
            /\ \A kept \in after, gone \in backup_directory \ after :
                   NamedAutoBackup(kept) => kept.mtime >= gone.mtime
            /\ \A gone \in backup_directory \ after : NamedAutoBackup(gone)

\* C25: a cleanup has removed a backup and kept one, beside a file of
\* another name
WitC25_Cleaned ==
    /\ max_backups >= 1
    /\ cleaned # {}
    /\ \E file \in backup_directory : NamedAutoBackup(file)
    /\ \E file \in backup_directory : file.head = "before_restore_"
    /\ \E k \in Threads : loops[k].pc = "test"

SetIntervalReturned == main.pc = "idle" /\ main.method = "set_interval"

\* C26: when set_interval has returned: for a name not in INTERVALS interval
\* and is_running are as before; for a name in INTERVALS interval is the
\* name and is_running holds if and only if it held before and the name is
\* not "disabled"; and the loop such a call started was started under the
\* new interval and waits that many minutes
ThmC26_SetInterval ==
    SetIntervalReturned =>
        IF main.arg \notin DOMAIN INTERVALS
        THEN /\ interval = main.old_interval
             /\ is_running = main.was_running
        ELSE /\ interval = main.arg
             /\ is_running = (main.was_running /\ main.arg # "disabled")
             /\ is_running =>
                    /\ backup_thread # NoThread
                    /\ loops[backup_thread].started_with = main.arg
                    /\ loops[backup_thread].pc # "begin" =>
                           loops[backup_thread].interval_seconds =
                               INTERVALS[main.arg] * 60

\* C26: set_interval("5min") has returned on a manager that ran with "1min",
\* and the loop it started waits 300 seconds
WitC26_Restarted ==
    /\ SetIntervalReturned
    /\ main.was_running
    /\ main.old_interval = "1min"
    /\ main.arg = "5min"
    /\ loops[backup_thread].pc = "wait"
    /\ loops[backup_thread].interval_seconds = 300

\* C27 (as stated): at most one loop thread is alive, and no loop begins a
\* backup after the stop() that joined it has returned
OrigC27_OneLoop ==
    /\ Cardinality({k \in Threads : Alive(loops[k])}) <= 1
    /\ \A k \in Threads : ~loops[k].late

-----------------------------------------------------------------------------
(* Further claims about the DNA duplicator, the galleries and the          *)
(* configuration                                                           *)

\* C23 (as stated): duplicate_dna applied to a plain DNA string, one without
\* a genes keyword, returns the string concatenated with itself; the empty
\* string gives the empty string.
OrigC23_PlainConcatenated ==
    (Returned /\ ~reapplied /\ NoGenesKeyword(input_text)) =>
        output_text = input_text \o input_text

\* C28 (as stated): the names of the galleries are pairwise distinct after
\* any sequence of create_gallery, rename_gallery, delete_gallery and
\* import_gallery calls from the default state, so that get_gallery reaches
\* every gallery.
OrigC28_DistinctNames ==
    /\ NoneTwice(get_gallery_names(galleries))
    /\ \A k \in 1..Len(galleries) :
           get_gallery(galleries, galleries[k].name) = k

\* C29 (as stated): add_recent_database never modifies DEFAULT_CONFIG, so a
\* ConfigManager constructed later where no config file is starts with an
\* empty recent-databases list.
OrigC29_DefaultsIsolated ==
    /\ DEFAULT_CONFIG = DefaultConfig
    /\ (result.method = "__init__" /\ config_file = NoFile) =>
           get_recent_databases(ConfigSelf) = PyList(<<>>)

\* C30 (as stated): duplicate_dna returns a string starting with "Error:" if
\* and only if the locator failed.
OrigC30_ErrorPrefixIffFailed ==
    Returned => (IsError(output_text) <=> raised # NoException)

====
